---- MODULE Spec2Model ----
(***************************************************************************)
(* Model of app.py: the /webhook handler of the quotation bot, its field   *)
(* extractor (parse_command_with_ai), the document renderer, the mailer    *)
(* and the WhatsApp reply sender.                                          *)
(*                                                                         *)
(* A text (a Python str) is a sequence of Unicode code points; Text turns  *)
(* a sequence of one-character strings of printable ASCII into one.  The   *)
(* reply of the language model is a text, and json.loads is modelled on    *)
(* its characters.  Python's None is the record None.  A Python int is a   *)
(* sign and its decimal digits, a Python float is an IEEE 754 double held  *)
(* exactly as m * 2^e.  sys.stdout is a UTF-8 text stream.                 *)
(***************************************************************************)
EXTENDS Integers, Sequences, FiniteSets, TLC

\* ------------------------------------------------------------------------
\* Bounds
\* ------------------------------------------------------------------------
\* Number of handler invocations the server runs, possibly at the same time.
NumInvocations == 2

Invocations == 1..NumInvocations

\* ------------------------------------------------------------------------
\* Characters
\* ------------------------------------------------------------------------
\* The printable ASCII characters, code points 32 to 126 in order (the
\* entry of code point 96, the backquote, is spelled out).
Printable ==
  <<" ", "!", "\"", "#", "$", "%", "&", "'", "(", ")", "*", "+", ",", "-", ".", "/",
    "0", "1", "2", "3", "4", "5", "6", "7", "8", "9", ":", ";", "<", "=", ">", "?",
    "@", "A", "B", "C", "D", "E", "F", "G", "H", "I", "J", "K", "L", "M", "N", "O",
    "P", "Q", "R", "S", "T", "U", "V", "W", "X", "Y", "Z", "[", "\\", "]", "^", "_",
    "backquote", "a", "b", "c", "d", "e", "f", "g", "h", "i", "j", "k", "l", "m", "n", "o",
    "p", "q", "r", "s", "t", "u", "v", "w", "x", "y", "z", "{", "|", "}", "~">>

\* ord(c)
Ord(c) == 31 + (CHOOSE i \in 1..Len(Printable) : Printable[i] = c)

\* The sequence a function on 1..n is, its elements worked out once.
Tuple(f) == f \o <<>>

Text(s) == Tuple([i \in 1..Len(s) |-> Ord(s[i])])

Backquote == 96
\* The rupee sign of the currency format, U+20B9.
Rupee == 8377

SetMin(S) == CHOOSE x \in S : \A y \in S : x <= y
SetMax(S) == 0 - SetMin({0 - x : x \in S})

InRanges(c, ranges) == \E i \in 1..Len(ranges) : ranges[i][1] <= c /\ c <= ranges[i][2]

\* str.isspace() of one character (Unicode 14, the database of Python 3.11).
IsSpace(c) ==
  \/ c \in 9..13 \/ c \in 28..32 \/ c \in {133, 160, 5760} \/ c \in 8192..8202
  \/ c \in {8232, 8233, 8239, 8287, 12288}

\* The characters above ASCII with a decimal digit value: each range is a
\* run of digit sets 0..9.
DecimalRanges ==
  << <<1632, 1641>>, <<1776, 1785>>, <<1984, 1993>>, <<2406, 2415>>, <<2534, 2543>>, <<2662, 2671>>, <<2790, 2799>>,
     <<2918, 2927>>, <<3046, 3055>>, <<3174, 3183>>, <<3302, 3311>>, <<3430, 3439>>, <<3558, 3567>>, <<3664, 3673>>,
     <<3792, 3801>>, <<3872, 3881>>, <<4160, 4169>>, <<4240, 4249>>, <<6112, 6121>>, <<6160, 6169>>, <<6470, 6479>>,
     <<6608, 6617>>, <<6784, 6793>>, <<6800, 6809>>, <<6992, 7001>>, <<7088, 7097>>, <<7232, 7241>>, <<7248, 7257>>,
     <<42528, 42537>>, <<43216, 43225>>, <<43264, 43273>>, <<43472, 43481>>, <<43504, 43513>>, <<43600, 43609>>, <<44016, 44025>>,
     <<65296, 65305>>, <<66720, 66729>>, <<68912, 68921>>, <<69734, 69743>>, <<69872, 69881>>, <<69942, 69951>>, <<70096, 70105>>,
     <<70384, 70393>>, <<70736, 70745>>, <<70864, 70873>>, <<71248, 71257>>, <<71360, 71369>>, <<71472, 71481>>, <<71904, 71913>>,
     <<72016, 72025>>, <<72784, 72793>>, <<73040, 73049>>, <<73120, 73129>>, <<92768, 92777>>, <<92864, 92873>>, <<93008, 93017>>,
     <<120782, 120831>>, <<123200, 123209>>, <<123632, 123641>>, <<125264, 125273>>, <<130032, 130041>> >>

\* The decimal digit value of a character, -1 when it has none.
DecimalValue(c) ==
  IF 48 <= c /\ c <= 57 THEN c - 48
  ELSE IF c >= 128 /\ InRanges(c, DecimalRanges)
       THEN LET i == CHOOSE j \in 1..Len(DecimalRanges) :
                       DecimalRanges[j][1] <= c /\ c <= DecimalRanges[j][2]
            IN (c - DecimalRanges[i][1]) % 10
       ELSE 0 - 1

\* The characters above ASCII for which str.isalnum() holds.
AlnumRanges ==
  << <<170, 170>>, <<178, 179>>, <<181, 181>>, <<185, 186>>, <<188, 190>>, <<192, 214>>, <<216, 246>>,
     <<248, 705>>, <<710, 721>>, <<736, 740>>, <<748, 748>>, <<750, 750>>, <<880, 884>>, <<886, 887>>,
     <<890, 893>>, <<895, 895>>, <<902, 902>>, <<904, 906>>, <<908, 908>>, <<910, 929>>, <<931, 1013>>,
     <<1015, 1153>>, <<1162, 1327>>, <<1329, 1366>>, <<1369, 1369>>, <<1376, 1416>>, <<1488, 1514>>, <<1519, 1522>>,
     <<1568, 1610>>, <<1632, 1641>>, <<1646, 1647>>, <<1649, 1747>>, <<1749, 1749>>, <<1765, 1766>>, <<1774, 1788>>,
     <<1791, 1791>>, <<1808, 1808>>, <<1810, 1839>>, <<1869, 1957>>, <<1969, 1969>>, <<1984, 2026>>, <<2036, 2037>>,
     <<2042, 2042>>, <<2048, 2069>>, <<2074, 2074>>, <<2084, 2084>>, <<2088, 2088>>, <<2112, 2136>>, <<2144, 2154>>,
     <<2160, 2183>>, <<2185, 2190>>, <<2208, 2249>>, <<2308, 2361>>, <<2365, 2365>>, <<2384, 2384>>, <<2392, 2401>>,
     <<2406, 2415>>, <<2417, 2432>>, <<2437, 2444>>, <<2447, 2448>>, <<2451, 2472>>, <<2474, 2480>>, <<2482, 2482>>,
     <<2486, 2489>>, <<2493, 2493>>, <<2510, 2510>>, <<2524, 2525>>, <<2527, 2529>>, <<2534, 2545>>, <<2548, 2553>>,
     <<2556, 2556>>, <<2565, 2570>>, <<2575, 2576>>, <<2579, 2600>>, <<2602, 2608>>, <<2610, 2611>>, <<2613, 2614>>,
     <<2616, 2617>>, <<2649, 2652>>, <<2654, 2654>>, <<2662, 2671>>, <<2674, 2676>>, <<2693, 2701>>, <<2703, 2705>>,
     <<2707, 2728>>, <<2730, 2736>>, <<2738, 2739>>, <<2741, 2745>>, <<2749, 2749>>, <<2768, 2768>>, <<2784, 2785>>,
     <<2790, 2799>>, <<2809, 2809>>, <<2821, 2828>>, <<2831, 2832>>, <<2835, 2856>>, <<2858, 2864>>, <<2866, 2867>>,
     <<2869, 2873>>, <<2877, 2877>>, <<2908, 2909>>, <<2911, 2913>>, <<2918, 2927>>, <<2929, 2935>>, <<2947, 2947>>,
     <<2949, 2954>>, <<2958, 2960>>, <<2962, 2965>>, <<2969, 2970>>, <<2972, 2972>>, <<2974, 2975>>, <<2979, 2980>>,
     <<2984, 2986>>, <<2990, 3001>>, <<3024, 3024>>, <<3046, 3058>>, <<3077, 3084>>, <<3086, 3088>>, <<3090, 3112>>,
     <<3114, 3129>>, <<3133, 3133>>, <<3160, 3162>>, <<3165, 3165>>, <<3168, 3169>>, <<3174, 3183>>, <<3192, 3198>>,
     <<3200, 3200>>, <<3205, 3212>>, <<3214, 3216>>, <<3218, 3240>>, <<3242, 3251>>, <<3253, 3257>>, <<3261, 3261>>,
     <<3293, 3294>>, <<3296, 3297>>, <<3302, 3311>>, <<3313, 3314>>, <<3332, 3340>>, <<3342, 3344>>, <<3346, 3386>>,
     <<3389, 3389>>, <<3406, 3406>>, <<3412, 3414>>, <<3416, 3425>>, <<3430, 3448>>, <<3450, 3455>>, <<3461, 3478>>,
     <<3482, 3505>>, <<3507, 3515>>, <<3517, 3517>>, <<3520, 3526>>, <<3558, 3567>>, <<3585, 3632>>, <<3634, 3635>>,
     <<3648, 3654>>, <<3664, 3673>>, <<3713, 3714>>, <<3716, 3716>>, <<3718, 3722>>, <<3724, 3747>>, <<3749, 3749>>,
     <<3751, 3760>>, <<3762, 3763>>, <<3773, 3773>>, <<3776, 3780>>, <<3782, 3782>>, <<3792, 3801>>, <<3804, 3807>>,
     <<3840, 3840>>, <<3872, 3891>>, <<3904, 3911>>, <<3913, 3948>>, <<3976, 3980>>, <<4096, 4138>>, <<4159, 4169>>,
     <<4176, 4181>>, <<4186, 4189>>, <<4193, 4193>>, <<4197, 4198>>, <<4206, 4208>>, <<4213, 4225>>, <<4238, 4238>>,
     <<4240, 4249>>, <<4256, 4293>>, <<4295, 4295>>, <<4301, 4301>>, <<4304, 4346>>, <<4348, 4680>>, <<4682, 4685>>,
     <<4688, 4694>>, <<4696, 4696>>, <<4698, 4701>>, <<4704, 4744>>, <<4746, 4749>>, <<4752, 4784>>, <<4786, 4789>>,
     <<4792, 4798>>, <<4800, 4800>>, <<4802, 4805>>, <<4808, 4822>>, <<4824, 4880>>, <<4882, 4885>>, <<4888, 4954>>,
     <<4969, 4988>>, <<4992, 5007>>, <<5024, 5109>>, <<5112, 5117>>, <<5121, 5740>>, <<5743, 5759>>, <<5761, 5786>>,
     <<5792, 5866>>, <<5870, 5880>>, <<5888, 5905>>, <<5919, 5937>>, <<5952, 5969>>, <<5984, 5996>>, <<5998, 6000>>,
     <<6016, 6067>>, <<6103, 6103>>, <<6108, 6108>>, <<6112, 6121>>, <<6128, 6137>>, <<6160, 6169>>, <<6176, 6264>>,
     <<6272, 6276>>, <<6279, 6312>>, <<6314, 6314>>, <<6320, 6389>>, <<6400, 6430>>, <<6470, 6509>>, <<6512, 6516>>,
     <<6528, 6571>>, <<6576, 6601>>, <<6608, 6618>>, <<6656, 6678>>, <<6688, 6740>>, <<6784, 6793>>, <<6800, 6809>>,
     <<6823, 6823>>, <<6917, 6963>>, <<6981, 6988>>, <<6992, 7001>>, <<7043, 7072>>, <<7086, 7141>>, <<7168, 7203>>,
     <<7232, 7241>>, <<7245, 7293>>, <<7296, 7304>>, <<7312, 7354>>, <<7357, 7359>>, <<7401, 7404>>, <<7406, 7411>>,
     <<7413, 7414>>, <<7418, 7418>>, <<7424, 7615>>, <<7680, 7957>>, <<7960, 7965>>, <<7968, 8005>>, <<8008, 8013>>,
     <<8016, 8023>>, <<8025, 8025>>, <<8027, 8027>>, <<8029, 8029>>, <<8031, 8061>>, <<8064, 8116>>, <<8118, 8124>>,
     <<8126, 8126>>, <<8130, 8132>>, <<8134, 8140>>, <<8144, 8147>>, <<8150, 8155>>, <<8160, 8172>>, <<8178, 8180>>,
     <<8182, 8188>>, <<8304, 8305>>, <<8308, 8313>>, <<8319, 8329>>, <<8336, 8348>>, <<8450, 8450>>, <<8455, 8455>>,
     <<8458, 8467>>, <<8469, 8469>>, <<8473, 8477>>, <<8484, 8484>>, <<8486, 8486>>, <<8488, 8488>>, <<8490, 8493>>,
     <<8495, 8505>>, <<8508, 8511>>, <<8517, 8521>>, <<8526, 8526>>, <<8528, 8585>>, <<9312, 9371>>, <<9450, 9471>>,
     <<10102, 10131>>, <<11264, 11492>>, <<11499, 11502>>, <<11506, 11507>>, <<11517, 11517>>, <<11520, 11557>>, <<11559, 11559>>,
     <<11565, 11565>>, <<11568, 11623>>, <<11631, 11631>>, <<11648, 11670>>, <<11680, 11686>>, <<11688, 11694>>, <<11696, 11702>>,
     <<11704, 11710>>, <<11712, 11718>>, <<11720, 11726>>, <<11728, 11734>>, <<11736, 11742>>, <<11823, 11823>>, <<12293, 12295>>,
     <<12321, 12329>>, <<12337, 12341>>, <<12344, 12348>>, <<12353, 12438>>, <<12445, 12447>>, <<12449, 12538>>, <<12540, 12543>>,
     <<12549, 12591>>, <<12593, 12686>>, <<12690, 12693>>, <<12704, 12735>>, <<12784, 12799>>, <<12832, 12841>>, <<12872, 12879>>,
     <<12881, 12895>>, <<12928, 12937>>, <<12977, 12991>>, <<13312, 19903>>, <<19968, 42124>>, <<42192, 42237>>, <<42240, 42508>>,
     <<42512, 42539>>, <<42560, 42606>>, <<42623, 42653>>, <<42656, 42735>>, <<42775, 42783>>, <<42786, 42888>>, <<42891, 42954>>,
     <<42960, 42961>>, <<42963, 42963>>, <<42965, 42969>>, <<42994, 43009>>, <<43011, 43013>>, <<43015, 43018>>, <<43020, 43042>>,
     <<43056, 43061>>, <<43072, 43123>>, <<43138, 43187>>, <<43216, 43225>>, <<43250, 43255>>, <<43259, 43259>>, <<43261, 43262>>,
     <<43264, 43301>>, <<43312, 43334>>, <<43360, 43388>>, <<43396, 43442>>, <<43471, 43481>>, <<43488, 43492>>, <<43494, 43518>>,
     <<43520, 43560>>, <<43584, 43586>>, <<43588, 43595>>, <<43600, 43609>>, <<43616, 43638>>, <<43642, 43642>>, <<43646, 43695>>,
     <<43697, 43697>>, <<43701, 43702>>, <<43705, 43709>>, <<43712, 43712>>, <<43714, 43714>>, <<43739, 43741>>, <<43744, 43754>>,
     <<43762, 43764>>, <<43777, 43782>>, <<43785, 43790>>, <<43793, 43798>>, <<43808, 43814>>, <<43816, 43822>>, <<43824, 43866>>,
     <<43868, 43881>>, <<43888, 44002>>, <<44016, 44025>>, <<44032, 55203>>, <<55216, 55238>>, <<55243, 55291>>, <<63744, 64109>>,
     <<64112, 64217>>, <<64256, 64262>>, <<64275, 64279>>, <<64285, 64285>>, <<64287, 64296>>, <<64298, 64310>>, <<64312, 64316>>,
     <<64318, 64318>>, <<64320, 64321>>, <<64323, 64324>>, <<64326, 64433>>, <<64467, 64829>>, <<64848, 64911>>, <<64914, 64967>>,
     <<65008, 65019>>, <<65136, 65140>>, <<65142, 65276>>, <<65296, 65305>>, <<65313, 65338>>, <<65345, 65370>>, <<65382, 65470>>,
     <<65474, 65479>>, <<65482, 65487>>, <<65490, 65495>>, <<65498, 65500>>, <<65536, 65547>>, <<65549, 65574>>, <<65576, 65594>>,
     <<65596, 65597>>, <<65599, 65613>>, <<65616, 65629>>, <<65664, 65786>>, <<65799, 65843>>, <<65856, 65912>>, <<65930, 65931>>,
     <<66176, 66204>>, <<66208, 66256>>, <<66273, 66299>>, <<66304, 66339>>, <<66349, 66378>>, <<66384, 66421>>, <<66432, 66461>>,
     <<66464, 66499>>, <<66504, 66511>>, <<66513, 66517>>, <<66560, 66717>>, <<66720, 66729>>, <<66736, 66771>>, <<66776, 66811>>,
     <<66816, 66855>>, <<66864, 66915>>, <<66928, 66938>>, <<66940, 66954>>, <<66956, 66962>>, <<66964, 66965>>, <<66967, 66977>>,
     <<66979, 66993>>, <<66995, 67001>>, <<67003, 67004>>, <<67072, 67382>>, <<67392, 67413>>, <<67424, 67431>>, <<67456, 67461>>,
     <<67463, 67504>>, <<67506, 67514>>, <<67584, 67589>>, <<67592, 67592>>, <<67594, 67637>>, <<67639, 67640>>, <<67644, 67644>>,
     <<67647, 67669>>, <<67672, 67702>>, <<67705, 67742>>, <<67751, 67759>>, <<67808, 67826>>, <<67828, 67829>>, <<67835, 67867>>,
     <<67872, 67897>>, <<67968, 68023>>, <<68028, 68047>>, <<68050, 68096>>, <<68112, 68115>>, <<68117, 68119>>, <<68121, 68149>>,
     <<68160, 68168>>, <<68192, 68222>>, <<68224, 68255>>, <<68288, 68295>>, <<68297, 68324>>, <<68331, 68335>>, <<68352, 68405>>,
     <<68416, 68437>>, <<68440, 68466>>, <<68472, 68497>>, <<68521, 68527>>, <<68608, 68680>>, <<68736, 68786>>, <<68800, 68850>>,
     <<68858, 68899>>, <<68912, 68921>>, <<69216, 69246>>, <<69248, 69289>>, <<69296, 69297>>, <<69376, 69415>>, <<69424, 69445>>,
     <<69457, 69460>>, <<69488, 69505>>, <<69552, 69579>>, <<69600, 69622>>, <<69635, 69687>>, <<69714, 69743>>, <<69745, 69746>>,
     <<69749, 69749>>, <<69763, 69807>>, <<69840, 69864>>, <<69872, 69881>>, <<69891, 69926>>, <<69942, 69951>>, <<69956, 69956>>,
     <<69959, 69959>>, <<69968, 70002>>, <<70006, 70006>>, <<70019, 70066>>, <<70081, 70084>>, <<70096, 70106>>, <<70108, 70108>>,
     <<70113, 70132>>, <<70144, 70161>>, <<70163, 70187>>, <<70272, 70278>>, <<70280, 70280>>, <<70282, 70285>>, <<70287, 70301>>,
     <<70303, 70312>>, <<70320, 70366>>, <<70384, 70393>>, <<70405, 70412>>, <<70415, 70416>>, <<70419, 70440>>, <<70442, 70448>>,
     <<70450, 70451>>, <<70453, 70457>>, <<70461, 70461>>, <<70480, 70480>>, <<70493, 70497>>, <<70656, 70708>>, <<70727, 70730>>,
     <<70736, 70745>>, <<70751, 70753>>, <<70784, 70831>>, <<70852, 70853>>, <<70855, 70855>>, <<70864, 70873>>, <<71040, 71086>>,
     <<71128, 71131>>, <<71168, 71215>>, <<71236, 71236>>, <<71248, 71257>>, <<71296, 71338>>, <<71352, 71352>>, <<71360, 71369>>,
     <<71424, 71450>>, <<71472, 71483>>, <<71488, 71494>>, <<71680, 71723>>, <<71840, 71922>>, <<71935, 71942>>, <<71945, 71945>>,
     <<71948, 71955>>, <<71957, 71958>>, <<71960, 71983>>, <<71999, 71999>>, <<72001, 72001>>, <<72016, 72025>>, <<72096, 72103>>,
     <<72106, 72144>>, <<72161, 72161>>, <<72163, 72163>>, <<72192, 72192>>, <<72203, 72242>>, <<72250, 72250>>, <<72272, 72272>>,
     <<72284, 72329>>, <<72349, 72349>>, <<72368, 72440>>, <<72704, 72712>>, <<72714, 72750>>, <<72768, 72768>>, <<72784, 72812>>,
     <<72818, 72847>>, <<72960, 72966>>, <<72968, 72969>>, <<72971, 73008>>, <<73030, 73030>>, <<73040, 73049>>, <<73056, 73061>>,
     <<73063, 73064>>, <<73066, 73097>>, <<73112, 73112>>, <<73120, 73129>>, <<73440, 73458>>, <<73648, 73648>>, <<73664, 73684>>,
     <<73728, 74649>>, <<74752, 74862>>, <<74880, 75075>>, <<77712, 77808>>, <<77824, 78894>>, <<82944, 83526>>, <<92160, 92728>>,
     <<92736, 92766>>, <<92768, 92777>>, <<92784, 92862>>, <<92864, 92873>>, <<92880, 92909>>, <<92928, 92975>>, <<92992, 92995>>,
     <<93008, 93017>>, <<93019, 93025>>, <<93027, 93047>>, <<93053, 93071>>, <<93760, 93846>>, <<93952, 94026>>, <<94032, 94032>>,
     <<94099, 94111>>, <<94176, 94177>>, <<94179, 94179>>, <<94208, 100343>>, <<100352, 101589>>, <<101632, 101640>>, <<110576, 110579>>,
     <<110581, 110587>>, <<110589, 110590>>, <<110592, 110882>>, <<110928, 110930>>, <<110948, 110951>>, <<110960, 111355>>, <<113664, 113770>>,
     <<113776, 113788>>, <<113792, 113800>>, <<113808, 113817>>, <<119520, 119539>>, <<119648, 119672>>, <<119808, 119892>>, <<119894, 119964>>,
     <<119966, 119967>>, <<119970, 119970>>, <<119973, 119974>>, <<119977, 119980>>, <<119982, 119993>>, <<119995, 119995>>, <<119997, 120003>>,
     <<120005, 120069>>, <<120071, 120074>>, <<120077, 120084>>, <<120086, 120092>>, <<120094, 120121>>, <<120123, 120126>>, <<120128, 120132>>,
     <<120134, 120134>>, <<120138, 120144>>, <<120146, 120485>>, <<120488, 120512>>, <<120514, 120538>>, <<120540, 120570>>, <<120572, 120596>>,
     <<120598, 120628>>, <<120630, 120654>>, <<120656, 120686>>, <<120688, 120712>>, <<120714, 120744>>, <<120746, 120770>>, <<120772, 120779>>,
     <<120782, 120831>>, <<122624, 122654>>, <<123136, 123180>>, <<123191, 123197>>, <<123200, 123209>>, <<123214, 123214>>, <<123536, 123565>>,
     <<123584, 123627>>, <<123632, 123641>>, <<124896, 124902>>, <<124904, 124907>>, <<124909, 124910>>, <<124912, 124926>>, <<124928, 125124>>,
     <<125127, 125135>>, <<125184, 125251>>, <<125259, 125259>>, <<125264, 125273>>, <<126065, 126123>>, <<126125, 126127>>, <<126129, 126132>>,
     <<126209, 126253>>, <<126255, 126269>>, <<126464, 126467>>, <<126469, 126495>>, <<126497, 126498>>, <<126500, 126500>>, <<126503, 126503>>,
     <<126505, 126514>>, <<126516, 126519>>, <<126521, 126521>>, <<126523, 126523>>, <<126530, 126530>>, <<126535, 126535>>, <<126537, 126537>>,
     <<126539, 126539>>, <<126541, 126543>>, <<126545, 126546>>, <<126548, 126548>>, <<126551, 126551>>, <<126553, 126553>>, <<126555, 126555>>,
     <<126557, 126557>>, <<126559, 126559>>, <<126561, 126562>>, <<126564, 126564>>, <<126567, 126570>>, <<126572, 126578>>, <<126580, 126583>>,
     <<126585, 126588>>, <<126590, 126590>>, <<126592, 126601>>, <<126603, 126619>>, <<126625, 126627>>, <<126629, 126633>>, <<126635, 126651>>,
     <<127232, 127244>>, <<130032, 130041>>, <<131072, 173791>>, <<173824, 177976>>, <<177984, 178205>>, <<178208, 183969>>, <<183984, 191456>>,
     <<194560, 195101>>, <<196608, 201546>> >>

\* c.isalnum()
IsAlnum(c) ==
  IF c < 128 THEN (48 <= c /\ c <= 57) \/ (65 <= c /\ c <= 90) \/ (97 <= c /\ c <= 122)
  ELSE InRanges(c, AlnumRanges)

\* ------------------------------------------------------------------------
\* Naturals of any size: little-endian limbs in base 2^15, the top limb not
\* zero; zero is the empty sequence.
\* ------------------------------------------------------------------------
LimbBits == 15
Base == 32768

RECURSIVE Pow2(_)
Pow2(k) == IF k = 0 THEN 1 ELSE 2 * Pow2(k - 1)

RECURSIVE BitsOf(_)
BitsOf(n) == IF n = 0 THEN 0 ELSE 1 + BitsOf(n \div 2)

NTrim(a) ==
  IF a = <<>> \/ a[Len(a)] # 0 THEN a
  ELSE LET nz == {i \in 1..Len(a) : a[i] # 0}
       IN IF nz = {} THEN <<>> ELSE SubSeq(a, 1, SetMax(nz))

NBitLen(a) == IF a = <<>> THEN 0 ELSE LimbBits * (Len(a) - 1) + BitsOf(a[Len(a)])
NOdd(a) == a # <<>> /\ a[1] % 2 = 1
Limb(a, i) == IF i <= Len(a) THEN a[i] ELSE 0
Max2(x, y) == IF x >= y THEN x ELSE y

\* The number whose limb i is s[i], each s[i] below 2 * Base: the carry
\* into limb i comes from a limb below that overflows, passed on by limbs
\* that are full.
Carried(s) ==
  LET carry(i) == \E j \in 1..(i - 1) :
                    s[j] >= Base /\ \A l \in (j + 1)..(i - 1) : s[l] = Base - 1
  IN NTrim(Tuple([i \in 1..(Len(s) + 1) |->
                    IF i <= Len(s) THEN (s[i] + (IF carry(i) THEN 1 ELSE 0)) % Base
                    ELSE IF carry(i) THEN 1 ELSE 0]))

NAdd(a, b) ==
  Carried(Tuple([i \in 1..Max2(Len(a), Len(b)) |-> Limb(a, i) + Limb(b, i)]))

\* a * k + c for k and c below Base.
NMulAdd(a, k, c) ==
  Carried(Tuple([i \in 1..(Len(a) + 1) |->
                   (IF i <= Len(a) THEN ((a[i] * k) % Base) ELSE 0)
                     + (IF i = 1 THEN c ELSE (a[i - 1] * k) \div Base)]))

\* a - b for a >= b: the borrow into limb i comes from a limb below that
\* is short, passed on by limbs that are level.
NSub(a, b) ==
  LET d == Tuple([i \in 1..Len(a) |-> a[i] - Limb(b, i)])
      borrow(i) == \E j \in 1..(i - 1) : d[j] < 0 /\ \A l \in (j + 1)..(i - 1) : d[l] = 0
  IN NTrim(Tuple([i \in 1..Len(a) |->
                    (d[i] - (IF borrow(i) THEN 1 ELSE 0) + Base) % Base]))

NLess(a, b) ==
  IF Len(a) # Len(b) THEN Len(a) < Len(b)
  ELSE LET d == {i \in 1..Len(a) : a[i] # b[i]}
       IN d # {} /\ a[SetMax(d)] < b[SetMax(d)]

\* a * Base^n
ShiftLimbs(a, n) == IF a = <<>> THEN a ELSE [i \in 1..n |-> 0] \o a

\* a * b, halving b down to single limbs.
RECURSIVE NMulBy(_, _)
NMulBy(a, b) ==
  IF b = <<>> THEN <<>>
  ELSE IF Len(b) = 1 THEN NMulAdd(a, b[1], 0)
  ELSE LET h == Len(b) \div 2
       IN NAdd(NMulBy(a, NTrim(SubSeq(b, 1, h))),
               ShiftLimbs(NMulBy(a, SubSeq(b, h + 1, Len(b))), h))
NMul(a, b) == IF Len(a) >= Len(b) THEN NMulBy(a, b) ELSE NMulBy(b, a)

\* a * 2^k, floor(a / 2^k), a mod 2^k.
NShl(a, k) ==
  LET p == Pow2(k % LimbBits)
  IN ShiftLimbs(NTrim(Tuple([i \in 1..(Len(a) + 1) |->
                               ((Limb(a, i) * p) % Base)
                                 + (IF i = 1 THEN 0 ELSE (a[i - 1] * p) \div Base)])),
                k \div LimbBits)
NShr(a, k) ==
  LET b == SubSeq(a, (k \div LimbBits) + 1, Len(a))
      p == Pow2(k % LimbBits)
  IN NTrim(Tuple([i \in 1..Len(b) |->
                    (b[i] \div p) + (Limb(b, i + 1) % p) * (Base \div p)]))
NLow(a, k) ==
  LET n == k \div LimbBits
  IN IF n >= Len(a) THEN a
     ELSE NTrim(Append(SubSeq(a, 1, n), a[n + 1] % Pow2(k % LimbBits)))

\* The largest d in lo..hi with b * d <= r, by bisection.
RECURSIVE QuotLimb(_, _, _, _)
QuotLimb(r, b, lo, hi) ==
  IF lo = hi THEN lo
  ELSE IF NLess(r, NMulAdd(b, (lo + hi + 1) \div 2, 0))
       THEN QuotLimb(r, b, lo, ((lo + hi + 1) \div 2) - 1)
       ELSE QuotLimb(r, b, (lo + hi + 1) \div 2, hi)

\* Quotient and remainder of a by b, b not zero: long division from the
\* top limb of a, one limb of the quotient at a time; q holds the limbs of
\* the quotient found so far and r the running remainder.
RECURSIVE NDivModFrom(_, _, _, _)
NDivModFrom(a, b, q, r) ==
  IF Len(q) = Len(a) - Len(b) + 1 THEN [q |-> NTrim(q), r |-> r]
  ELSE LET r1 == NTrim(<<a[Len(a) - Len(b) + 1 - Len(q)]>> \o r)
           d == QuotLimb(r1, b, 0, Base - 1)
       IN NDivModFrom(a, b, <<d>> \o q, NSub(r1, NMulAdd(b, d, 0)))
NDivMod(a, b) ==
  IF Len(a) < Len(b) THEN [q |-> <<>>, r |-> a]
  ELSE NDivModFrom(a, b, <<>>, SubSeq(a, Len(a) - Len(b) + 2, Len(a)))

\* Numbers below 2^30 as integers.
NOfSmall(n) == NTrim(<<n % Base, n \div Base>>)
SmallOf(a) == Limb(a, 1) + Limb(a, 2) * Base

RECURSIVE Pow10(_)
Pow10(k) == IF k = 0 THEN 1 ELSE 10 * Pow10(k - 1)

\* The number of at most 9 decimal digit values, and back, to a given
\* width.
SmallDigits == 9
RECURSIVE SmallNat(_)
SmallNat(ds) ==
  IF ds = <<>> THEN 0 ELSE 10 * SmallNat(SubSeq(ds, 1, Len(ds) - 1)) + ds[Len(ds)]
SmallToDigits(n, width) == Tuple([i \in 1..width |-> (n \div Pow10(width - i)) % 10])

\* 10^x
RECURSIVE NPow10(_)
NPow10(x) ==
  IF x <= SmallDigits THEN NOfSmall(Pow10(x))
  ELSE NMul(NPow10(x \div 2), NPow10(x - (x \div 2)))

\* From decimal digit values, most significant first, halving the digits.
RECURSIVE NFromDigits(_)
NFromDigits(ds) ==
  IF Len(ds) <= SmallDigits THEN NOfSmall(SmallNat(ds))
  ELSE LET h == Len(ds) \div 2
       IN NAdd(NMul(NFromDigits(SubSeq(ds, 1, Len(ds) - h)), NPow10(h)),
               NFromDigits(SubSeq(ds, Len(ds) - h + 1, Len(ds))))

\* The width decimal digit values of a, a below 10^width.
RECURSIVE NToDigitsPad(_, _)
NToDigitsPad(a, width) ==
  IF width <= SmallDigits THEN SmallToDigits(SmallOf(a), width)
  ELSE LET h == width \div 2
           qr == NDivMod(a, NPow10(h))
       IN NToDigitsPad(qr.q, width - h) \o NToDigitsPad(qr.r, h)

\* Without the leading zeros of ds; without its trailing zeros, x counting
\* them.
StripZeros(ds) ==
  IF \A i \in 1..Len(ds) : ds[i] = 0 THEN <<>>
  ELSE SubSeq(ds, CHOOSE i \in 1..Len(ds) : ds[i] # 0 /\ \A j \in 1..(i - 1) : ds[j] = 0, Len(ds))
Shortest(ds, x) ==
  IF \A i \in 1..Len(ds) : ds[i] = 0 THEN [ds |-> <<>>, x |-> x]
  ELSE LET n == CHOOSE i \in 1..Len(ds) : ds[i] # 0 /\ \A j \in (i + 1)..Len(ds) : ds[j] = 0
       IN [ds |-> SubSeq(ds, 1, n), x |-> x + (Len(ds) - n)]

\* To decimal digit values; zero has no digits.  A number of b bits has at
\* most b * 30103 / 100000 + 1 digits.
NToDigits(a) == StripZeros(NToDigitsPad(a, (NBitLen(a) * 30103) \div 100000 + 1))

\* floor(a / 2^k) rounded to nearest, ties to even, for k >= 1; sticky says
\* that a stands for a value slightly above a.
RoundShift(a, k, sticky) ==
  LET q == NShr(a, k)
      rem == NLow(a, k)
      half == NShl(<<1>>, k - 1)
      up == NLess(half, rem) \/ (rem = half /\ (sticky \/ NOdd(q)))
  IN IF up THEN NAdd(q, <<1>>) ELSE q

\* ------------------------------------------------------------------------
\* Python floats: IEEE 754 doubles.  A finite one is m * 2^e with m below
\* 2^53 and e at least -1074, and below 2^1024.
\* ------------------------------------------------------------------------
MantissaBits == 53
MinExponent == 0 - 1074
MaxBits == 1024

Finite(neg, m, e) == [kind |-> "finite", neg |-> neg, m |-> m, e |-> e]
Zero(neg) == Finite(neg, <<>>, 0)
Inf(neg) == [kind |-> "inf", neg |-> neg, m |-> <<>>, e |-> 0]
NaN == [kind |-> "nan", neg |-> FALSE, m |-> <<>>, e |-> 0]

\* The double nearest to m * 2^e (ties to even); sticky: the value is
\* slightly above m * 2^e, and then m has at least 55 bits.  A value too
\* large for a double gives infinity.
InRange(neg, m, e) ==
  IF m = <<>> THEN Zero(neg)
  ELSE IF NBitLen(m) + e > MaxBits THEN Inf(neg)
  ELSE Finite(neg, m, e)
RoundToDouble(neg, m, e, sticky) ==
  LET k == Max2(Max2(NBitLen(m) - MantissaBits, MinExponent - e), 0)
  IN InRange(neg, IF k = 0 THEN m ELSE RoundShift(m, k, sticky), e + k)

\* Decimal exponents beyond which every number is infinite, or rounds to 0.
HugeExponent == 310
TinyExponent == 0 - 330

\* The double nearest to the decimal number ds * 10^x (digit values ds).
\* The double nearest to n / den: the quotient is taken to 55 bits at
\* least, and a remainder makes it sticky.
DoubleOfRatio(neg, n, den) ==
  LET k == Max2(MantissaBits + 2 - (NBitLen(n) - NBitLen(den)), 0)
  IN RoundToDouble(neg, NDivMod(NShl(n, k), den).q, 0 - k, NDivMod(NShl(n, k), den).r # <<>>)
DoubleOfShortest(neg, d) ==
  IF d.ds = <<>> THEN Zero(neg)
  ELSE IF Len(d.ds) + d.x > HugeExponent THEN Inf(neg)
  ELSE IF Len(d.ds) + d.x < TinyExponent THEN Zero(neg)
  ELSE IF d.x >= 0 THEN RoundToDouble(neg, NMul(NFromDigits(d.ds), NPow10(d.x)), 0, FALSE)
  ELSE DoubleOfRatio(neg, NFromDigits(d.ds), NPow10(0 - d.x))
DoubleOfDecimal(neg, digits, exp10) ==
  DoubleOfShortest(neg, Shortest(StripZeros(digits), exp10))

\* A Python int: sign and decimal digit values, no leading zero; zero is
\* not negative and has no digits.
PyInt(neg, mag) == [neg |-> neg /\ mag # <<>>, mag |-> mag]

\* float(i) for an int i: OverflowError when it rounds beyond the doubles.
FiniteOnly(f) == [ok |-> f.kind = "finite", val |-> f]
FloatOfInt(i) == FiniteOnly(DoubleOfDecimal(i.neg, i.mag, 0))

\* int(f) for a float f: truncation toward zero; OverflowError for an
\* infinity, ValueError for a nan.
IntOfFloat(f) ==
  IF f.kind # "finite" THEN [ok |-> FALSE, val |-> PyInt(FALSE, <<>>)]
  ELSE [ok |-> TRUE,
        val |-> PyInt(f.neg, NToDigits(IF f.e >= 0 THEN NShl(f.m, f.e) ELSE NShr(f.m, 0 - f.e)))]

\* x * y on floats.
FloatMul(x, y) ==
  LET neg == x.neg # y.neg
      zero(f) == f.kind = "finite" /\ f.m = <<>>
  IN IF x.kind = "nan" \/ y.kind = "nan" THEN NaN
     ELSE IF x.kind = "inf" \/ y.kind = "inf"
          THEN (IF zero(x) \/ zero(y) THEN NaN ELSE Inf(neg))
     ELSE IF zero(x) \/ zero(y) THEN Zero(neg)
     ELSE RoundToDouble(neg, NMul(x.m, y.m), x.e + y.e, FALSE)

\* price_num * qty_num (line 109): the int is converted to a float first,
\* which raises OverflowError when it is too large.
FloatTimes(f, g) == [ok |-> g.ok, val |-> IF g.ok THEN FloatMul(f, g.val) ELSE NaN]
FloatTimesInt(f, n) == FloatTimes(f, FloatOfInt(n))

\* bool(f): a float is falsy when it is zero.
FloatTruthy(f) == f.kind # "finite" \/ f.m # <<>>

\* ------------------------------------------------------------------------
\* Numeric texts
\* ------------------------------------------------------------------------
IsDigit(c) == 48 <= c /\ c <= 57
AllDigits(s) == \A i \in 1..Len(s) : IsDigit(s[i])
DigitValues(s) == Tuple([i \in 1..Len(s) |-> s[i] - 48])
DigitChars(ds) == Tuple([i \in 1..Len(ds) |-> ds[i] + 48])

\* What float() and int() do to a str first: a space above ASCII becomes a
\* blank, a decimal digit above ASCII its ASCII digit, any other character
\* above ASCII a question mark.
AsciiOf(c) ==
  IF c < 128 THEN c
  ELSE IF IsSpace(c) THEN 32
  ELSE IF DecimalValue(c) >= 0 THEN 48 + DecimalValue(c)
  ELSE 63
Transformed(s) == Tuple([i \in 1..Len(s) |-> AsciiOf(s[i])])

\* The ASCII white space float() and int() skip at both ends.
AsciiSpace == 9..13 \cup {32}
Strip(s) ==
  LET keep == {i \in 1..Len(s) : s[i] \notin AsciiSpace}
  IN IF keep = {} THEN <<>> ELSE SubSeq(s, SetMin(keep), SetMax(keep))

\* An underscore is allowed between two digits only.
UnderscoresOk(s) ==
  \A i \in 1..Len(s) :
    s[i] = 95 => (i > 1 /\ i < Len(s) /\ IsDigit(s[i - 1]) /\ IsDigit(s[i + 1]))
WithoutUnderscores(s) == SelectSeq(s, LAMBDA c : c # 95)

\* The sign and the unsigned rest of a numeric text.
SignOf(s) == s # <<>> /\ s[1] = 45
Unsigned(s) == IF s # <<>> /\ s[1] \in {43, 45} THEN Tail(s) ELSE s

Lower(s) ==
  Tuple([i \in 1..Len(s) |-> IF 65 <= s[i] /\ s[i] <= 90 THEN s[i] + 32 ELSE s[i]])

\* The first position of character c in s, Len(s) + 1 when there is none.
Find(s, c) ==
  IF \E i \in 1..Len(s) : s[i] = c THEN SetMin({i \in 1..Len(s) : s[i] = c}) ELSE Len(s) + 1

\* Mantissa and exponent of an unsigned literal: the text before and after
\* the first e or E.
MantissaOf(u) == SubSeq(u, 1, Find(Lower(u), 101) - 1)
ExponentOf(u) == SubSeq(u, Find(Lower(u), 101) + 1, Len(u))
HasExponent(u) == Find(Lower(u), 101) <= Len(u)
IntPart(m) == SubSeq(m, 1, Find(m, 46) - 1)
FracPart(m) == SubSeq(m, Find(m, 46) + 1, Len(m))

\* digits [ "." digits ] with at least one digit, then possibly e or E, a
\* sign and at least one digit.
IsDecimalLiteral(u) ==
  /\ AllDigits(IntPart(MantissaOf(u))) /\ AllDigits(FracPart(MantissaOf(u)))
  /\ Len(IntPart(MantissaOf(u))) + Len(FracPart(MantissaOf(u))) > 0
  /\ HasExponent(u) =>
       (Unsigned(ExponentOf(u)) # <<>> /\ AllDigits(Unsigned(ExponentOf(u))))

T_inf == Text(<<"i", "n", "f">>)
T_infinity == Text(<<"i", "n", "f", "i", "n", "i", "t", "y">>)
T_nan == Text(<<"n", "a", "n">>)

\* The value of an exponent (dtoa.c): exact up to 9 significant digits,
\* MAX_ABS_EXP beyond.  A literal has fewer than 10^9 digits, so that a
\* capped exponent makes it infinite or zero.
MAX_ABS_EXP == 1100000000
ExponentValue(ds) ==
  IF Len(StripZeros(ds)) > SmallDigits THEN MAX_ABS_EXP ELSE SmallNat(StripZeros(ds))

\* The float an unsigned ASCII literal without underscores denotes.
FloatOfLiteral(neg, u) ==
  IF Lower(u) \in {T_inf, T_infinity} THEN Inf(neg)
  ELSE IF Lower(u) = T_nan THEN NaN
  ELSE LET m == MantissaOf(u)
           x == IF HasExponent(u)
                THEN LET v == ExponentValue(DigitValues(Unsigned(ExponentOf(u))))
                     IN IF SignOf(ExponentOf(u)) THEN 0 - v ELSE v
                ELSE 0
       IN DoubleOfDecimal(neg, DigitValues(IntPart(m) \o FracPart(m)), x - Len(FracPart(m)))

\* The text float() and int() parse: transformed, stripped.
NumericText(s) == Strip(Transformed(s))

\* Texts float() accepts.
IsFloatText(s) ==
  LET a == NumericText(s)
      u == Unsigned(WithoutUnderscores(a))
  IN /\ UnderscoresOk(a)
     /\ Lower(u) \in {T_inf, T_infinity, T_nan} \/ IsDecimalLiteral(u)

FloatOfText(s) ==
  LET t == WithoutUnderscores(NumericText(s)) IN FloatOfLiteral(SignOf(t), Unsigned(t))

\* int() refuses a text of more than 4300 digits (sys.int_info).
int_max_str_digits == 4300

\* Texts int() accepts: [sign] digits, underscores between digits.
IsIntText(s) ==
  LET a == NumericText(s)
      u == Unsigned(WithoutUnderscores(a))
  IN UnderscoresOk(a) /\ u # <<>> /\ AllDigits(u) /\ Len(u) <= int_max_str_digits

IntOfText(s) ==
  LET t == WithoutUnderscores(NumericText(s))
  IN PyInt(SignOf(t), StripZeros(DigitValues(Unsigned(t))))

\* ------------------------------------------------------------------------
\* JSON numbers (json.loads)
\* ------------------------------------------------------------------------
T_NaN == Text(<<"N", "a", "N">>)
T_Infinity == Text(<<"I", "n", "f", "i", "n", "i", "t", "y">>)

\* -? (0 | [1-9] digits)
IsJsonInt(s) ==
  LET u == IF SignOf(s) THEN Tail(s) ELSE s
  IN u # <<>> /\ AllDigits(u) /\ (Len(u) = 1 \/ u[1] # 48)

\* int frac? exp? with a fraction or an exponent.
IsJsonFloat(s) ==
  LET u == IF SignOf(s) THEN Tail(s) ELSE s
      m == MantissaOf(u)
  IN /\ IsJsonInt(IntPart(m)) /\ ~SignOf(IntPart(m))
     /\ (Find(m, 46) <= Len(m)) => (FracPart(m) # <<>> /\ AllDigits(FracPart(m)))
     /\ HasExponent(u) =>
          (Unsigned(ExponentOf(u)) # <<>> /\ AllDigits(Unsigned(ExponentOf(u))))
     /\ Find(m, 46) <= Len(m) \/ HasExponent(u)

IsJsonConstant(s) == s \in {T_NaN, T_Infinity, <<45>> \o T_Infinity}

\* The literals json.loads reads as a number: an int of more than
\* int_max_str_digits digits raises ValueError.
IsJsonNumber(s) ==
  \/ IsJsonConstant(s)
  \/ IsJsonFloat(s)
  \/ (IsJsonInt(s) /\ Len(Unsigned(s)) <= int_max_str_digits)

\* The Python number of a JSON number literal: an int or a float.
JsonNumber(s) ==
  IF IsJsonInt(s)
  THEN [isint |-> TRUE, i |-> IntOfText(s), f |-> NaN]
  ELSE [isint |-> FALSE, i |-> PyInt(FALSE, <<>>),
        f |-> IF s = T_NaN THEN NaN ELSE FloatOfLiteral(SignOf(s), Unsigned(s))]

\* ------------------------------------------------------------------------
\* Number formats
\* ------------------------------------------------------------------------
\* str(qty_num)
py_str_int(n) ==
  (IF n.neg THEN <<45>> ELSE <<>>) \o (IF n.mag = <<>> THEN <<48>> ELSE DigitChars(n.mag))

\* Thousands grouping of the "," format option: counted from the right,
\* every fourth character is a comma.
Grouped(ds) ==
  LET n == Len(ds)
      len == n + ((n - 1) \div 3)
  IN IF n = 0 THEN ds
     ELSE Tuple([j \in 1..len |->
                   LET p == len - j
                   IN IF p % 4 = 3 THEN 44 ELSE ds[n - (p - (p \div 4))]])

\* The hundredths of a finite float, rounded to nearest, ties to even, as
\* digit values.
Hundredths(f) ==
  LET c == NMulAdd(f.m, 100, 0)
  IN NToDigits(IF f.e >= 0 THEN NShl(c, f.e) ELSE RoundShift(c, 0 - f.e, FALSE))

\* f"{x:,.2f}"
Fixed2(h) ==
  LET ds == IF Len(h) < 3 THEN [i \in 1..(3 - Len(h)) |-> 0] \o h ELSE h
  IN Grouped(DigitChars(SubSeq(ds, 1, Len(ds) - 2)))
       \o <<46>> \o DigitChars(SubSeq(ds, Len(ds) - 1, Len(ds)))
FormatFixed2(f) ==
  IF f.kind = "nan" THEN T_nan
  ELSE IF f.kind = "inf" THEN (IF f.neg THEN <<45>> ELSE <<>>) \o T_inf
  ELSE (IF f.neg THEN <<45>> ELSE <<>>) \o Fixed2(Hundredths(f))

\* f"₹{x:,.2f}"
FormatCurrency(f) == <<Rupee>> \o FormatFixed2(f)

\* ------------------------------------------------------------------------
\* Texts
\* ------------------------------------------------------------------------
\* The positions lo..hi in order.
Positions(lo, hi) == Tuple([i \in 1..(hi - lo + 1) |-> lo + i - 1])

\* The sequences of a sequence, joined (by halves).
RECURSIVE Flatten(_, _, _)
Flatten(seqs, lo, hi) ==
  IF lo > hi THEN <<>>
  ELSE IF lo = hi THEN seqs[lo]
  ELSE Flatten(seqs, lo, (lo + hi) \div 2) \o Flatten(seqs, ((lo + hi) \div 2) + 1, hi)

\* s.strip()
Between(s, keep) == IF keep = <<>> THEN <<>> ELSE SubSeq(s, keep[1], keep[Len(keep)])
StrStrip(s) == Between(s, SelectSeq(Positions(1, Len(s)), LAMBDA i : ~IsSpace(s[i])))

\* print(text) on sys.stdout, a UTF-8 stream: a surrogate cannot be encoded
\* and raises UnicodeEncodeError; with the error handler surrogateescape
\* (the one of the C locale) U+DC80 to U+DCFF can.
IsSurrogate(c) == 55296 <= c /\ c <= 57343
print_raises(errors, text) ==
  \E i \in 1..Len(text) :
    /\ IsSurrogate(text[i])
    /\ ~(errors = "surrogateescape" /\ 56448 <= text[i] /\ text[i] <= 56575)

T_fence_json == <<Backquote, Backquote, Backquote>> \o Text(<<"j", "s", "o", "n">>)
T_fence == <<Backquote, Backquote, Backquote>>

\* Where pat occurs in s.
Occurrences(s, pat) ==
  {i \in 1..(Len(s) - Len(pat) + 1) : s[i] = pat[1] /\ SubSeq(s, i, i + Len(pat) - 1) = pat}

\* s without the positions that are gone.
Without(s, gone(_)) ==
  SelectSeq(Tuple([p \in 1..Len(s) |-> IF gone(p) THEN 0 - 1 ELSE s[p]]), LAMBDA c : c >= 0)

\* s.replace(T_fence_json, ""): no two occurrences overlap, every one goes.
WithoutSpans(s, occ, n) ==
  IF occ = {} THEN s ELSE Without(s, LAMBDA p : \E i \in occ : i <= p /\ p < i + n)
WithoutFenceJson(s) == WithoutSpans(s, Occurrences(s, T_fence_json), Len(T_fence_json))

\* The run of backquotes position p is in: its first and last position.
RunFirst(s, p) == SetMin({j \in 1..p : \A l \in j..p : s[l] = Backquote})
RunLast(s, p) == SetMax({j \in p..Len(s) : \A l \in p..j : s[l] = Backquote})

\* s.replace(T_fence, ""): occurrences are taken from the left, so of a run
\* of n backquotes the first 3 * (n div 3) go.
WithoutFence(s) ==
  Without(s, LAMBDA p : /\ s[p] = Backquote
                        /\ p - RunFirst(s, p) < 3 * ((RunLast(s, p) - RunFirst(s, p) + 1) \div 3))

\* .replace(T_fence_json, "").replace(T_fence, "")
WithoutFences(s) == WithoutFence(WithoutFenceJson(s))

\* Line 94: response.text.strip().replace(...).replace(...).strip().  The
\* fences go wherever they are in the text: around the JSON document, and
\* inside its strings, keys and number literals too.
StripFences(text) == StrStrip(WithoutFences(StrStrip(text)))

\* ------------------------------------------------------------------------
\* json.loads (line 97): tokens
\* ------------------------------------------------------------------------
\* The white space json skips, and the characters of the structure.
JsonSpace == {32, 9, 10, 13}
Structural == {123, 125, 91, 93, 44, 58}

\* The number of backslashes right before position p of s.
LastOther(p, stop) == IF stop = {} THEN 0 ELSE SetMax(stop)
BackslashesBefore(s, p) ==
  IF p = 1 \/ s[p - 1] # 92 THEN 0
  ELSE (p - 1) - LastOther(p, {j \in 1..(p - 1) : s[j] # 92})

\* The double quotes that open or close a string: those not escaped.
StringQuotes(s) ==
  SelectSeq(Positions(1, Len(s)), LAMBDA p : s[p] = 34 /\ BackslashesBefore(s, p) % 2 = 0)

\* A token: its kind (a structure character, "str" or, for the text of a
\* number or a constant, "lit") and its first and last position.
Tok(k, a, b) == [k |-> k, a |-> a, b |-> b]

Kind(c) ==
  CASE c = 123 -> "{" [] c = 125 -> "}" [] c = 91 -> "[" [] c = 93 -> "]"
    [] c = 44 -> "," [] c = 58 -> ":" [] OTHER -> "lit"

InLiteral(c) == c \notin JsonSpace /\ c \notin Structural

\* The tokens of positions lo..hi, which hold no string: every structure
\* character, and every run of other characters between white space.
Zip(s, starts, ends) ==
  Tuple([i \in 1..Len(starts) |-> Tok(Kind(s[starts[i]]), starts[i], ends[i])])
GapTokens(s, lo, hi) ==
  Zip(s,
      SelectSeq(Positions(lo, hi),
                LAMBDA p : /\ s[p] \notin JsonSpace
                           /\ s[p] \in Structural \/ p = lo \/ ~InLiteral(s[p - 1])),
      SelectSeq(Positions(lo, hi),
                LAMBDA p : /\ s[p] \notin JsonSpace
                           /\ s[p] \in Structural \/ p = hi \/ ~InLiteral(s[p + 1])))

\* Piece j of the text: the strings are the even pieces, what is between
\* them the odd ones.  q holds the string quotes.
Piece(s, q, j) ==
  IF j % 2 = 0 THEN <<Tok("str", q[j - 1], q[j])>>
  ELSE GapTokens(s, IF j = 1 THEN 1 ELSE q[j - 1] + 1,
                    IF j > Len(q) THEN Len(s) ELSE q[j] - 1)

TokensBetween(s, q) ==
  Flatten(Tuple([j \in 1..(Len(q) + 1) |-> Piece(s, q, j)]), 1, Len(q) + 1)

\* The tokens of a text whose strings are all closed.
Tokens(s) == TokensBetween(s, StringQuotes(s))

\* ------------------------------------------------------------------------
\* json.loads: strings
\* ------------------------------------------------------------------------
IsHex(c) == (48 <= c /\ c <= 57) \/ (65 <= c /\ c <= 70) \/ (97 <= c /\ c <= 102)
HexValue(c) == IF c <= 57 THEN c - 48 ELSE IF c <= 70 THEN c - 55 ELSE c - 87
Hex4(c, p) ==
  4096 * HexValue(c[p]) + 256 * HexValue(c[p + 1]) + 16 * HexValue(c[p + 2]) + HexValue(c[p + 3])

\* An escape starts at position p of the string content c.
EscapeStart(c, p) == c[p] = 92 /\ BackslashesBefore(c, p) % 2 = 0

\* The content of a string is well formed: no control character, and every
\* backslash starts one of the escapes, \u having four hex digits.
StrOk(c) ==
  \A p \in 1..Len(c) :
    /\ c[p] >= 32
    /\ EscapeStart(c, p) =>
         \/ c[p + 1] \in {34, 92, 47, 98, 102, 110, 114, 116}
         \/ /\ c[p + 1] = 117 /\ p + 5 <= Len(c)
            /\ \A h \in (p + 2)..(p + 5) : IsHex(c[h])

\* A \u escape starts at position p, and its value.
IsUEscape(c, p) == p >= 1 /\ p + 5 <= Len(c) /\ c[p + 1] = 117 /\ EscapeStart(c, p)
IsHigh(v) == 55296 <= v /\ v <= 56319
IsLow(v) == 56320 <= v /\ v <= 57343

\* The character the escape at p stands for: a \u escape of a high
\* surrogate right before one of a low surrogate makes one character with
\* it, and the low one makes none (-1).
EscapeValue(c, p) ==
  CASE c[p + 1] = 98 -> 8 [] c[p + 1] = 102 -> 12 [] c[p + 1] = 110 -> 10
    [] c[p + 1] = 114 -> 13 [] c[p + 1] = 116 -> 9
    [] c[p + 1] = 117 ->
         IF IsLow(Hex4(c, p + 2)) /\ IsUEscape(c, p - 6) /\ IsHigh(Hex4(c, p - 4))
         THEN 0 - 1
         ELSE IF IsHigh(Hex4(c, p + 2)) /\ IsUEscape(c, p + 6) /\ IsLow(Hex4(c, p + 8))
         THEN 65536 + 1024 * (Hex4(c, p + 2) - 55296) + (Hex4(c, p + 8) - 56320)
         ELSE Hex4(c, p + 2)
    [] OTHER -> c[p + 1]

\* The character position p of the content contributes, -1 for none: the
\* rest of an escape contributes nothing.
CharAt(c, p) ==
  IF c[p] = 92 /\ EscapeStart(c, p) THEN EscapeValue(c, p)
  ELSE IF p > 1 /\ c[p - 1] = 92 /\ EscapeStart(c, p - 1) THEN 0 - 1
  ELSE IF \E q \in (p - 5)..(p - 2) : q >= 1 /\ c[q] = 92 /\ IsUEscape(c, q) THEN 0 - 1
  ELSE c[p]

\* The str a well-formed string content denotes.
Decode(c) ==
  IF \A p \in 1..Len(c) : c[p] # 92 THEN c
  ELSE SelectSeq(Tuple([p \in 1..Len(c) |-> CharAt(c, p)]), LAMBDA v : v >= 0)

\* ------------------------------------------------------------------------
\* Python values
\* ------------------------------------------------------------------------
\* A value json.loads returns is a record [t, s]: a str and its characters,
\* a number and its literal, None ("null"), a bool (s is <<1>> for True), a
\* list ("array") or a dict ("object") and the JSON text it was read from.
\* The dict the extractor works on is a function from keys to values.
None == [py_none |-> TRUE]

Str(chars) == [t |-> "str", s |-> chars]
Num(chars) == [t |-> "num", s |-> chars]
Null == [t |-> "null", s |-> <<>>]
Bool(b) == [t |-> "bool", s |-> IF b THEN <<1>> ELSE <<0>>]
Container(t, text) == [t |-> t, s |-> text]

T_null == Text(<<"n", "u", "l", "l">>)
T_true == Text(<<"t", "r", "u", "e">>)
T_false == Text(<<"f", "a", "l", "s", "e">>)

\* The text of a "lit" token is a constant or a number.
LitOk(text) == text \in {T_null, T_true, T_false} \/ IsJsonNumber(text)
LitValue(text) ==
  IF text = T_null THEN Null
  ELSE IF text = T_true THEN Bool(TRUE)
  ELSE IF text = T_false THEN Bool(FALSE)
  ELSE Num(text)

\* ------------------------------------------------------------------------
\* json.loads: structure
\* ------------------------------------------------------------------------
IsOpen(t) == t.k \in {"{", "["}
IsClose(t) == t.k \in {"}", "]"}
StartsValue(t) == t.k \in {"str", "lit", "{", "["}
EndsValue(t) == t.k \in {"str", "lit", "}", "]"}

\* The nesting depth after each of the tokens lo..hi of T, base being the
\* depth before token lo (by halves).
Step(t) == IF IsOpen(t) THEN 1 ELSE IF IsClose(t) THEN 0 - 1 ELSE 0
RECURSIVE Depths(_, _, _, _)
DepthsAfter(T, lo, hi, left) == left \o Depths(T, lo, hi, left[Len(left)])
Depths(T, lo, hi, base) ==
  IF lo > hi THEN <<>>
  ELSE IF lo = hi THEN <<base + Step(T[lo])>>
  ELSE DepthsAfter(T, ((lo + hi) \div 2) + 1, hi, Depths(T, lo, (lo + hi) \div 2, base))

\* The token that closes the open token j: the first one after which the
\* depth is below the depth after j.
Match(d, j) == SetMin({i \in (j + 1)..Len(d) : d[i] < d[j]})

\* The last token of the value that starts at token i.
End(T, d, i) == IF IsOpen(T[i]) THEN Match(d, i) ELSE i

\* The kind of the open token around token i, i not the first.
Around(T, d, i) ==
  IF IsOpen(T[i - 1]) THEN T[i - 1].k
  ELSE IF d[i - 1] = 1 THEN T[1].k
  ELSE T[SetMax({j \in 1..(i - 1) : IsOpen(T[j]) /\ d[j] = d[i - 1]})].k

\* The value from token i to token e is in its place: in an array, after
\* the bracket or a comma and before a comma or the bracket; in an object,
\* a key (a string after the brace or a comma, before a colon) or what
\* follows a colon, before a comma or the brace.
Placed(T, i, e, around) ==
  IF around = "["
  THEN T[i - 1].k \in {"[", ","} /\ T[e + 1].k \in {",", "]"}
  ELSE \/ T[i - 1].k \in {"{", ","} /\ T[i].k = "str" /\ T[i + 1].k = ":"
       \/ T[i - 1].k = ":" /\ T[e + 1].k \in {",", "}"}

Closes(open, close) == (open = "{" /\ close = "}") \/ (open = "[" /\ close = "]")

\* Token i, not the first, of a document inside one array or object.
TokenOk(T, d, i) ==
  CASE StartsValue(T[i]) ->
         /\ Placed(T, i, End(T, d, i), Around(T, d, i))
         /\ IsOpen(T[i]) => Closes(T[i].k, T[Match(d, i)].k)
    [] T[i].k = "," -> EndsValue(T[i - 1]) /\ StartsValue(T[i + 1])
    [] T[i].k = ":" -> T[i - 1].k = "str" /\ StartsValue(T[i + 1])
    [] OTHER -> EndsValue(T[i - 1]) \/ IsOpen(T[i - 1])

\* The tokens, more than one, are one JSON value: an array or an object
\* that holds everything else.
Nested(T, d) ==
  /\ IsOpen(T[1]) /\ d[Len(T)] = 0 /\ Closes(T[1].k, T[Len(T)].k)
  /\ \A i \in 1..(Len(T) - 1) : d[i] >= 1
  /\ \A i \in 2..Len(T) : TokenOk(T, d, i)

\* Every string and every number or constant is well formed.
AtomsOk(s, T) ==
  \A i \in 1..Len(T) :
    /\ T[i].k = "str" => StrOk(SubSeq(s, T[i].a + 1, T[i].b - 1))
    /\ T[i].k = "lit" => LitOk(SubSeq(s, T[i].a, T[i].b))

\* The value that starts at token i.
Value(s, T, d, i) ==
  CASE T[i].k = "str" -> Str(Decode(SubSeq(s, T[i].a + 1, T[i].b - 1)))
    [] T[i].k = "lit" -> LitValue(SubSeq(s, T[i].a, T[i].b))
    [] T[i].k = "[" -> Container("array", SubSeq(s, T[i].a, T[Match(d, i)].b))
    [] T[i].k = "{" -> Container("object", SubSeq(s, T[i].a, T[Match(d, i)].b))

\* The tokens that are the keys of the object, and those that start the
\* elements of the array, that the first token opens.
KeyTokens(T, d) ==
  SelectSeq(Positions(2, Len(T) - 1),
            LAMBDA i : d[i - 1] = 1 /\ T[i].k = "str" /\ T[i - 1].k \in {"{", ","})
ElementTokens(T, d) ==
  SelectSeq(Positions(2, Len(T) - 1), LAMBDA i : d[i - 1] = 1 /\ StartsValue(T[i]))

\* The dict of an object: of the members with the same key the last one
\* counts.  at holds the key tokens, keys the keys.
KeysAt(s, T, at) ==
  Tuple([n \in 1..Len(at) |-> Decode(SubSeq(s, T[at[n]].a + 1, T[at[n]].b - 1))])
LastWith(keys, k) == SetMax({n \in 1..Len(keys) : keys[n] = k})
DictOfKeys(s, T, d, at, keys) ==
  [k \in {keys[n] : n \in 1..Len(keys)} |-> Value(s, T, d, at[LastWith(keys, k)] + 2)]
DictOf(s, T, d) == DictOfKeys(s, T, d, KeyTokens(T, d), KeysAt(s, T, KeyTokens(T, d)))

\* What json.loads returns for an object is a dict.
Dict(f) == [dict |-> f]
IsDict(v) == "dict" \in DOMAIN v

Failed == [ok |-> FALSE, val |-> None]
Loaded(val) == [ok |-> TRUE, val |-> val]

\* sys.getrecursionlimit() of the interpreter.
recursion_limit == 1000

\* The deepest nesting json.loads (line 97) decodes where frames Python
\* frames are on the stack in parse_command_with_ai, its own included: loads,
\* decode, raw_decode and the scanner take four of the recursion_limit levels
\* and every array or object inside another takes one more.
MaxNesting(frames) == recursion_limit - 4 - frames

\* The document of more than one token.  A valid document nested deeper than
\* nesting raises RecursionError.
LoadNested(s, T, d, nesting) ==
  IF ~(Nested(T, d) /\ AtomsOk(s, T)) THEN Failed
  ELSE IF \E i \in 1..Len(d) : d[i] > nesting THEN Failed
  ELSE IF T[1].k = "[" THEN Loaded(Container("array", SubSeq(s, T[1].a, T[Len(T)].b)))
  ELSE Loaded(Dict(DictOf(s, T, d)))

\* A document is a string, a number or a constant alone, or one array or
\* object.
LoadTokens(s, T, nesting) ==
  IF T = <<>> THEN Failed
  ELSE IF Len(T) = 1
       THEN (IF T[1].k \in {"str", "lit"} /\ AtomsOk(s, T)
             THEN Loaded(Value(s, T, <<0>>, 1)) ELSE Failed)
  ELSE LoadNested(s, T, Depths(T, 1, Len(T), 0), nesting)

\* Line 97: json.loads(text) raises (ok = FALSE) unless the text is one
\* JSON document nested no deeper than nesting.
LoadQuoted(s, q, nesting) ==
  IF Len(q) % 2 = 1 THEN Failed ELSE LoadTokens(s, TokensBetween(s, q), nesting)
JsonLoads(s, nesting) == LoadQuoted(s, StringQuotes(s), nesting)

\* The elements of a list, as values, and the keys of a dict, each once, in
\* the order in which they were first written.
ElementsAt(s, T, d, at) == Tuple([n \in 1..Len(at) |-> Value(s, T, d, at[n])])
ElementsIn(s, T, d) == ElementsAt(s, T, d, ElementTokens(T, d))
ElementsOf(s, T) == ElementsIn(s, T, Depths(T, 1, Len(T), 0))
Elements(v) == ElementsOf(v.s, Tokens(v.s))
FirstOnes(keys) ==
  SelectSeq(Tuple([n \in 1..Len(keys) |->
                     IF \E l \in 1..(n - 1) : keys[l] = keys[n] THEN None ELSE Str(keys[n])]),
            LAMBDA x : x # None)
KeysIn(s, T, d) == FirstOnes(KeysAt(s, T, KeyTokens(T, d)))
KeysOf(s, T) == KeysIn(s, T, Depths(T, 1, Len(T), 0))
Keys(v) == KeysOf(v.s, Tokens(v.s))

\* Python truthiness (not context[field]).
NumberTruthy(n) == IF n.isint THEN n.i.mag # <<>> ELSE FloatTruthy(n.f)
Truthy(v) ==
  CASE v.t = "null" -> FALSE
    [] v.t = "str" -> v.s # <<>>
    [] v.t = "num" -> NumberTruthy(JsonNumber(v.s))
    [] v.t = "bool" -> v.s = <<1>>
    [] OTHER -> Len(SelectSeq(v.s, LAMBDA c : c \notin JsonSpace)) > 2

\* float(v): [ok, val]; ok = FALSE is ValueError, TypeError or OverflowError.
FloatOfNumber(n) == IF n.isint THEN FloatOfInt(n.i) ELSE [ok |-> TRUE, val |-> n.f]
py_float(v) ==
  CASE v.t = "num" -> FloatOfNumber(JsonNumber(v.s))
    [] v.t = "str" ->
         IF IsFloatText(v.s) THEN [ok |-> TRUE, val |-> FloatOfText(v.s)]
         ELSE [ok |-> FALSE, val |-> Zero(FALSE)]
    [] v.t = "bool" -> [ok |-> TRUE, val |-> DoubleOfDecimal(FALSE, v.s, 0)]
    [] OTHER -> [ok |-> FALSE, val |-> Zero(FALSE)]

\* int(v): [ok, val]; a JSON float is truncated toward zero, a string must
\* be an integer literal.
IntOfNumber(n) == IF n.isint THEN [ok |-> TRUE, val |-> n.i] ELSE IntOfFloat(n.f)
py_int(v) ==
  CASE v.t = "num" -> IntOfNumber(JsonNumber(v.s))
    [] v.t = "str" ->
         IF IsIntText(v.s) THEN [ok |-> TRUE, val |-> IntOfText(v.s)]
         ELSE [ok |-> FALSE, val |-> PyInt(FALSE, <<>>)]
    [] v.t = "bool" -> [ok |-> TRUE, val |-> PyInt(FALSE, StripZeros(v.s))]
    [] OTHER -> [ok |-> FALSE, val |-> PyInt(FALSE, <<>>)]

\* ------------------------------------------------------------------------
\* Dicts
\* ------------------------------------------------------------------------
Has(d, k) == k \in DOMAIN d
Put(d, k, v) == [x \in DOMAIN d \cup {k} |-> IF x = k THEN v ELSE d[x]]

\* The keys the code names.
K ==
  [product |-> Text(<<"p", "r", "o", "d", "u", "c", "t">>), customer_name |-> Text(<<"c", "u", "s", "t", "o", "m", "e", "r", "_", "n", "a", "m", "e">>), email |-> Text(<<"e", "m", "a", "i", "l">>),
   rate |-> Text(<<"r", "a", "t", "e">>), quantity |-> Text(<<"q", "u", "a", "n", "t", "i", "t", "y">>), rate_formatted |-> Text(<<"r", "a", "t", "e", "_", "f", "o", "r", "m", "a", "t", "t", "e", "d">>),
   total |-> Text(<<"t", "o", "t", "a", "l">>), date |-> Text(<<"d", "a", "t", "e">>), company_name |-> Text(<<"c", "o", "m", "p", "a", "n", "y", "_", "n", "a", "m", "e">>),
   hsn |-> Text(<<"h", "s", "n">>), q_no |-> Text(<<"q", "_", "n", "o">>), units |-> Text(<<"u", "n", "i", "t", "s">>)]

required_fields == <<K.product, K.customer_name, K.email, K.rate, K.quantity>>

\* datetime.date.today().strftime("%B %d, %Y")
TodayText == Text(<<"O", "c", "t", "o", "b", "e", "r", " ", "3", "1", ",", " ", "2", "0", "2", "6">>)
\* str(datetime.date.today())
TodayIso == Text(<<"2", "0", "2", "6", "-", "1", "0", "-", "3", "1">>)

\* Lines 101-104: the first required field that is missing or falsy fails.
RequiredPresent(d) ==
  \A i \in 1..Len(required_fields) :
    Has(d, required_fields[i]) /\ Truthy(d[required_fields[i]])

\* FormatNumbers with the rate field overwritten before the total is computed
\* from it.
FormatNumbers_FromDisplay(d, price_num, qty_num) ==
  LET d1 == Put(d, K.rate_formatted, Str(FormatCurrency(price_num)))
      d2 == Put(d1, K.rate, d1[K.rate_formatted])
      total_num == FloatTimesInt(py_float(d2[K.rate]).val, qty_num).val
      d3 == Put(d2, K.total, Str(FormatCurrency(total_num)))
  IN Put(d3, K.quantity, Str(py_str_int(qty_num)))

\* Lines 109-114: the total of the numbers read at lines 107-108, then the
\* fields are overwritten.
FormatNumbers(d, price_num, qty_num) ==
  LET total_num == FloatTimesInt(price_num, qty_num).val
      d1 == Put(d, K.rate_formatted, Str(FormatCurrency(price_num)))
      d2 == Put(d1, K.total, Str(FormatCurrency(total_num)))
      d3 == Put(d2, K.rate, d2[K.rate_formatted])
  IN Put(d3, K.quantity, Str(py_str_int(qty_num)))

\* Lines 121-123: a missing key gets the default.
SetDefault(d, k, v) == IF ~Has(d, k) THEN Put(d, k, v) ELSE d
\* Lines 120 and 124: a missing key or a falsy value gets the default.
SetIfFalsy(d, k, v) == IF ~Has(d, k) \/ ~Truthy(d[k]) THEN Put(d, k, v) ELSE d

\* Lines 120-124: defaults of the optional fields.
ApplyDefaults(d) ==
  SetIfFalsy(
    SetDefault(
      SetDefault(
        SetDefault(SetIfFalsy(d, K.date, Str(TodayText)), K.company_name, Str(<<>>)),
        K.hsn, Str(<<>>)),
      K.q_no, Str(<<>>)),
    K.units, Str(Text(<<"N", "o", "s">>)))

\* Lines 106-127 with the results of float() and int(): either raises
\* ValueError (line 115), or TypeError or OverflowError, as the product does
\* for an int too large for a float (line 129); each ends in return None.
Converted(d, price, qty) ==
  IF ~price.ok \/ ~qty.ok THEN None
  ELSE IF ~FloatTimesInt(price.val, qty.val).ok THEN None
  ELSE Dict(ApplyDefaults(FormatNumbers(d, price.val, qty.val)))

\* Lines 99-127: validation and formatting of the parsed model output, a
\* dict; the record returned is a dict.
ValidateAndFormat(d) ==
  IF ~RequiredPresent(d) THEN None
  ELSE Converted(d, py_float(d[K.rate]), py_int(d[K.quantity]))

\* What generate_content does: it raises, or returns a reply whose text is
\* a string.
Raised == [raised |-> TRUE, text |-> <<>>]
Replied(text) == [raised |-> FALSE, text |-> text]

\* Lines 99-104 on what json.loads returned.  Anything but a dict ends in
\* return None: the key is not in it (line 102), or the test or the
\* subscript raises TypeError (line 129).
FromLoaded(loaded) ==
  IF ~loaded.ok \/ ~IsDict(loaded.val) THEN None ELSE ValidateAndFormat(loaded.val.dict)

\* Lines 95-127 on the cleaned text: line 95 prints it, which raises
\* UnicodeEncodeError for a text stdout cannot encode, and line 97 raises
\* RecursionError for a document nested deeper than nesting (line 129).
Extract(text, errors, nesting) ==
  IF print_raises(errors, text) THEN None ELSE FromLoaded(JsonLoads(text, nesting))

\* Lines 93-131: the processing of the model's reply, with frames Python
\* frames on the stack, the one of parse_command_with_ai included.  Every
\* exception ends in return None.
parse_command_with_ai(reply, errors, frames) ==
  IF reply.raised THEN None ELSE Extract(StripFences(reply.text), errors, MaxNesting(frames))

\* ------------------------------------------------------------------------
\* Texts used by the handler
\* ------------------------------------------------------------------------
T_subscribe == Text(<<"s", "u", "b", "s", "c", "r", "i", "b", "e">>)
T_text == Text(<<"t", "e", "x", "t">>)
T_image == Text(<<"i", "m", "a", "g", "e">>)
T_secret == Text(<<"t", "o", "k">>)
T_wrong == Text(<<"b", "a", "d">>)
T_challenge == Text(<<"X", "Y", "Z", "1", "2", "3">>)
T_phone == Text(<<"9", "1", "9", "8">>)
T_command == Text(<<"q", "u", "o", "t", "e">>)
T_Raju == Text(<<"R", "a", "j", "u">>)
T_pipe == Text(<<"p", "i", "p", "e">>)
\* A product the model wrote with a code fence inside.
T_rod_fenced == Text(<<"r">>) \o T_fence \o Text(<<"o", "d">>)
T_mail == Text(<<"r", "@", "x">>)
T_600 == Text(<<"6", "0", "0">>)
T_500 == Text(<<"5", "0", "0">>)
T_abc == Text(<<"a", "b", "c">>)

\* ------------------------------------------------------------------------
\* Environment (lines 12-17): read once when the module is loaded
\* ------------------------------------------------------------------------
\* GMAIL: GMAIL_USER and GMAIL_PASS are both set; META: META_ACCESS_TOKEN and
\* PHONE_NUMBER_ID are both set; META_VERIFY_TOKEN: None when unset;
\* stdout_errors: the error handler of sys.stdout, a UTF-8 stream ("strict"
\* by default, "surrogateescape" in the C and POSIX locales).
\* stack: the Python frames on the stack in handle_webhook, its own
\* included (2 when the view function is called from module level; a WSGI
\* server calls it from deeper).
\* The environments drawn: everything set, or one setting missing (for the
\* verify token: unset, or set to the empty string), or the other error
\* handler.
Configured ==
  [GMAIL |-> TRUE, META |-> TRUE, META_VERIFY_TOKEN |-> Str(T_secret),
   stdout_errors |-> "strict", stack |-> 2]

Environments ==
  { Configured,
    [Configured EXCEPT !.GMAIL = FALSE],
    [Configured EXCEPT !.META = FALSE],
    [Configured EXCEPT !.META_VERIFY_TOKEN = None],
    [Configured EXCEPT !.META_VERIFY_TOKEN = Str(<<>>)],
    [Configured EXCEPT !.stdout_errors = "surrogateescape"] }

\* ------------------------------------------------------------------------
\* Requests
\* ------------------------------------------------------------------------
\* request.args.get(...) is None or a string.
GetRequest(mode, verify_token, challenge) ==
  [method |-> "GET", mode |-> mode, verify_token |-> verify_token,
   challenge |-> challenge, json_ok |-> TRUE, data |-> None]

GetRequests ==
  { GetRequest(m, t, Str(T_challenge)) :
      m \in {None, Str(T_subscribe)},
      t \in {None, Str(<<>>), Str(T_secret), Str(T_wrong)} }
  \cup { GetRequest(Str(T_text), Str(T_secret), Str(T_challenge)),
         GetRequest(Str(T_subscribe), Str(T_secret), None) }

TextMessage(from, body) == [type |-> Str(T_text), from |-> from, text |-> [body |-> body]]
Envelope(value) == [entry |-> <<[changes |-> <<[value |-> value]>>]>>]

\* Delivery bodies: json_ok = FALSE is a body request.json rejects.  One
\* text message has a body with the lone surrogate U+D800 (written \ud800
\* in the request).
Deliveries ==
  { [object |-> Str(T_text)],
    [entry |-> <<[id |-> Str(T_phone)]>>],
    [entry |-> <<[changes |-> <<>>]>>],
    [entry |-> <<[changes |-> <<[field |-> Str(T_text)]>>]>>],
    Envelope([statuses |-> <<[status |-> Str(T_text), id |-> Str(T_phone)]>>]),
    Envelope([messages |-> <<>>, statuses |-> <<[status |-> Str(T_text), id |-> Str(T_phone)]>>]),
    Envelope([messages |-> <<[type |-> Str(T_image), from |-> Str(T_phone),
                              text |-> [body |-> Str(T_command)]]>>]),
    Envelope([messages |-> <<[type |-> Str(T_text), text |-> [body |-> Str(T_command)]]>>]),
    Envelope([messages |-> <<TextMessage(Str(T_phone), Str(T_command))>>]),
    Envelope([messages |-> <<TextMessage(Str(T_phone), Str(T_command \o <<55296>>))>>]),
    Envelope([messages |-> <<TextMessage(Str(T_phone), Str(<<>>))>>]),
    Envelope([messages |-> <<TextMessage(Str(<<>>), Str(T_command))>>]) }

PostRequests ==
  [method : {"POST"}, mode : {None}, verify_token : {None}, challenge : {None},
   json_ok : {TRUE}, data : Deliveries]
  \cup
  [method : {"POST"}, mode : {None}, verify_token : {None}, challenge : {None},
   json_ok : {FALSE}, data : {None}]

Requests == GetRequests \cup PostRequests

\* is_text with the comparison left out: every message counts as text.
is_text_Any(message_data) == TRUE

\* Line 224: message_data.get('type') == 'text'.
is_text(message_data) == Has(message_data, "type") /\ message_data.type = Str(T_text)

\* Lines 214-243: the classification of a delivery.  branch names the return
\* taken; "text" is the only one that goes on to line 246.  Every exception
\* is caught at line 240: a missing key, and the UnicodeEncodeError of a
\* print (lines 227, 230, 234) of a text stdout cannot encode.
Ignored(branch) == [branch |-> branch, customer_phone_number |-> None, command_text |-> None]

\* print of message_data.get(key): None without the key.
get_raises(errors, d, key) == Has(d, key) /\ print_raises(errors, d[key].s)

\* Lines 225-227.
TextDelivery(message_data, errors) ==
  IF ~Has(message_data, "from") THEN Ignored("exception")
  ELSE IF ~(Has(message_data, "text") /\ Has(message_data.text, "body"))
  THEN [branch |-> "exception", customer_phone_number |-> message_data.from,
        command_text |-> None]
  ELSE [branch |-> IF \/ print_raises(errors, message_data.from.s)
                      \/ print_raises(errors, message_data.text.body.s)
                   THEN "exception" ELSE "text",
        customer_phone_number |-> message_data.from,
        command_text |-> message_data.text.body]

ParseDelivery(req, errors) ==
  IF ~req.json_ok THEN Ignored("exception")
  ELSE LET data == req.data IN
    IF \/ ~Has(data, "entry") \/ data.entry = <<>>
       \/ ~Has(data.entry[1], "changes") \/ data.entry[1].changes = <<>>
    THEN Ignored("unrecognized")
    ELSE LET change == data.entry[1].changes[1] IN
      IF Has(change, "value") /\ Has(change.value, "messages") /\ change.value.messages # <<>>
      THEN LET message_data == change.value.messages[1] IN
        IF is_text(message_data) THEN TextDelivery(message_data, errors)
        ELSE IF get_raises(errors, message_data, "type") THEN Ignored("exception")
        ELSE Ignored("non_text")
      ELSE IF Has(change, "value") /\ Has(change.value, "statuses") /\ change.value.statuses # <<>>
      THEN LET status_data == change.value.statuses[1] IN
        IF get_raises(errors, status_data, "status") \/ get_raises(errors, status_data, "id")
        THEN Ignored("exception") ELSE Ignored("status")
      ELSE Ignored("no_messages")

\* Response(body, status): a None body is sent as an empty body.
Response(body, status) ==
  [status |-> status, body |-> IF body = None THEN <<>> ELSE body.s]

\* The fixed bodies of the two GET failures.
T_mismatch == Text(<<"V", "e", "r", "i", "f", "i", "c", "a", "t", "i", "o", "n", " ", "t", "o", "k", "e", "n", " ", "m", "i", "s", "m", "a", "t", "c", "h">>)
T_failed == Text(<<"F", "a", "i", "l", "e", "d", " ", "v", "e", "r", "i", "f", "i", "c", "a", "t", "i", "o", "n">>)

\* VerifyResponse with the comparison against the secret left out.
VerifyResponse_NoCompare(req, verify_token) ==
  IF req.mode = Str(T_subscribe) /\ req.verify_token # None /\ Truthy(req.verify_token)
  THEN Response(req.challenge, 200)
  ELSE Response(Str(T_failed), 400)

\* Lines 195-206.
VerifyResponse(req, verify_token) ==
  IF req.mode = Str(T_subscribe) /\ req.verify_token # None /\ Truthy(req.verify_token)
  THEN IF req.verify_token = verify_token
       THEN Response(req.challenge, 200)
       ELSE Response(Str(T_mismatch), 403)
  ELSE Response(Str(T_failed), 400)

\* ------------------------------------------------------------------------
\* Renderer (lines 134-157)
\* ------------------------------------------------------------------------
\* s.rstrip()
RStrip(s) ==
  LET keep == {i \in 1..Len(s) : ~IsSpace(s[i])}
  IN IF keep = {} THEN <<>> ELSE SubSeq(s, 1, SetMax(keep))

\* Line 148 iterates over context['customer_name']: the characters of a
\* string, the elements of a list, the keys of a dict; a number or a
\* boolean raises TypeError (ok = FALSE), and so does, at c.isalnum(), an
\* element that is not a string (AttributeError).
Characters(s) == Tuple([i \in 1..Len(s) |-> <<s[i]>>])
Strings(values) ==
  [ok |-> \A i \in 1..Len(values) : values[i].t = "str",
   items |-> Tuple([i \in 1..Len(values) |-> values[i].s])]
Items(v) ==
  CASE v.t = "str" -> [ok |-> TRUE, items |-> Characters(v.s)]
    [] v.t = "array" -> Strings(Elements(v))
    [] v.t = "object" -> Strings(Keys(v))
    [] OTHER -> [ok |-> FALSE, items |-> <<>>]

\* c.isalnum() or c in " _-": c is not empty and all alphanumeric, or is a
\* part of " _-".
T_kept == Text(<<" ", "_", "-">>)
Kept(c) ==
  \/ c # <<>> /\ \A i \in 1..Len(c) : IsAlnum(c[i])
  \/ \E i \in 1..(Len(T_kept) + 1) : \E j \in (i - 1)..Len(T_kept) : c = SubSeq(T_kept, i, j)

\* Line 148: the items kept, joined, without the blanks at the end.
Joined(items) == Flatten(items, 1, Len(items))
safe_customer_name(name) == RStrip(Joined(SelectSeq(Items(name).items, Kept)))

\* Lines 150-151: every file goes to the directory of the script.
output_path(name) ==
  Text(<<"Q", "u", "o", "t", "a", "t", "i", "o", "n", "_">>) \o safe_customer_name(name) \o <<95>> \o TodayIso \o Text(<<".", "d", "o", "c", "x">>)

\* The document doc.render(context) produces.
Document(ctx) == [rendered |-> ctx]

\* ------------------------------------------------------------------------
\* Replies (lines 33-58, 251, 259, 291, 295)
\* ------------------------------------------------------------------------
Message(kind, product, email) == [kind |-> kind, product |-> product, email |-> email]
MsgNotUnderstood == Message("not_understood", Null, Null)
MsgDocumentError == Message("document_error", Null, Null)
MsgSuccess(ctx) == Message("success", ctx.dict[K.product], ctx.dict[K.email])
MsgMailFailed(ctx) == Message("mail_failed", Null, ctx.dict[K.email])

\* What the POST of send_whatsapp_reply can do: it is not attempted without
\* the Meta keys; otherwise it is accepted or raises a RequestException.
ReplyOutcomes(e) == IF e.META THEN {"posted", "request_failed"} ELSE {"no_keys"}

Call(fn, a1, a2, out) == [fn |-> fn, a1 |-> a1, a2 |-> a2, out |-> out]

\* Lines 33-58: the call made, and whether an exception leaves the function.
\* The RequestException is caught at line 52; the print of line 51, after a
\* post that went through, is not in reach of another handler.
send_whatsapp_reply(to_phone_number, message_text, outcome, errors) ==
  [call |-> Call("send_whatsapp_reply", to_phone_number, message_text, None),
   escapes |-> outcome = "posted" /\ print_raises(errors, to_phone_number.s)]

\* Line 249: if not context.
on_context(ctx) == IF ctx = None THEN "reply" ELSE "render"

\* on_doc_file without the test: the handler goes on to the mailer.
on_doc_file_Always(doc) == "mail"

\* Line 254: the print of context['customer_name'] raises
\* UnicodeEncodeError for a string stdout cannot encode; a value of another
\* type is printed as its repr, which is ASCII where it has to be.
announce_raises(ctx, errors) ==
  ctx.dict[K.customer_name].t = "str" /\ print_raises(errors, ctx.dict[K.customer_name].s)

\* Line 179: the print of recipient_email, likewise.
sent_raises(ctx, errors) ==
  ctx.dict[K.email].t = "str" /\ print_raises(errors, ctx.dict[K.email].s)

\* Line 257: if not doc_file.
on_doc_file(doc) == IF doc = None THEN "reply" ELSE "mail"

VARIABLES
  env,              \* the environment read at start
  files,            \* the script directory: path -> document
  pc,               \* where each invocation of handle_webhook is
  request,          \* its request
  customer_phone_number, command_text, ai_reply, context, doc_file,
  reply_msg,        \* the message it is about to send to the sender
  calls,            \* the collaborator calls it made, in order
  response          \* the response it returned

vars == <<env, files, pc, request, customer_phone_number, command_text, ai_reply,
          context, doc_file, reply_msg, calls, response>>

\* ------------------------------------------------------------------------
\* Model replies the handler is run on
\* ------------------------------------------------------------------------
\* The model raises; answers in prose; answers as the prompt asks, in a
\* fenced block; writes fences inside a key, a string and two numbers;
\* gives a number for the name; gives a rate that is no number; leaves the
\* email out; writes a lone surrogate (as the escape \ud800) in the name;
\* gives the name as a list, the rate as true and an email with the lone
\* surrogate U+DC80, which the error handler surrogateescape writes as the
\* byte 0x80; returns a text with that surrogate in it.
Fenced(text) == T_fence_json \o <<10>> \o text \o <<10>> \o T_fence

ModelReplies ==
  { Raised,
    Replied(Text(<<"S", "o", "r", "r", "y", ",", " ", "w", "h", "i", "c", "h", " ", "p", "r", "o", "d", "u", "c", "t", "?">>)),
    Replied(Fenced(Text(<<"{", "\"", "c", "u", "s", "t", "o", "m", "e", "r", "_", "n", "a", "m", "e", "\"", ":", "\"", "R", "a", "j", "u", "\"", ",", "\"", "p", "r", "o", "d", "u", "c", "t", "\"", ":", "\"", "p", "i", "p", "e", "\"", ",", "\"", "e", "m", "a", "i", "l", "\"", ":", "\"", "r", "@", "x", "\"", ",", "\"", "r", "a", "t", "e", "\"", ":", "\"", "6", "0", "0", "\"", ",", "\"", "q", "u", "a", "n", "t", "i", "t", "y", "\"", ":", "\"", "5", "0", "0", "\"", ",", "\"", "q", "_", "n", "o", "\"", ":", "\"", "1", "0", "1", "\"", "}">>))),
    Replied(Text(<<"{", "\"", "c", "u", "s", "t", "o", "m", "e", "r", "_", "n", "a", "m", "e", "\"", ":", "\"", "R", "a", "j", "u", "!", " ", "\"", ",", "\"", "p", "r", "o", "backquote", "backquote", "backquote", "d", "u", "c", "t", "\"", ":", "\"", "r", "backquote", "backquote", "backquote", "o", "d", "\"", ",", "\"", "e", "m", "a", "i", "l", "\"", ":", "\"", "r", "@", "x", "\"", ",", "\"", "r", "a", "t", "e", "\"", ":", "6", "backquote", "backquote", "backquote", "0", "0", ",", "\"", "q", "u", "a", "n", "t", "i", "t", "y", "\"", ":", "2", ",", "\"", "q", "_", "n", "o", "\"", ":", "1", "backquote", "backquote", "backquote", "j", "s", "o", "n", "0", "1", "}">>)),
    Replied(Text(<<"{", "\"", "c", "u", "s", "t", "o", "m", "e", "r", "_", "n", "a", "m", "e", "\"", ":", "7", ",", "\"", "p", "r", "o", "d", "u", "c", "t", "\"", ":", "\"", "p", "i", "p", "e", "\"", ",", "\"", "e", "m", "a", "i", "l", "\"", ":", "\"", "r", "@", "x", "\"", ",", "\"", "r", "a", "t", "e", "\"", ":", "\"", "6", "0", "0", "\"", ",", "\"", "q", "u", "a", "n", "t", "i", "t", "y", "\"", ":", "\"", "5", "0", "0", "\"", "}">>)),
    Replied(Text(<<"{", "\"", "c", "u", "s", "t", "o", "m", "e", "r", "_", "n", "a", "m", "e", "\"", ":", "\"", "R", "a", "j", "u", "\"", ",", "\"", "p", "r", "o", "d", "u", "c", "t", "\"", ":", "\"", "p", "i", "p", "e", "\"", ",", "\"", "e", "m", "a", "i", "l", "\"", ":", "\"", "r", "@", "x", "\"", ",", "\"", "r", "a", "t", "e", "\"", ":", "\"", "a", "b", "c", "\"", ",", "\"", "q", "u", "a", "n", "t", "i", "t", "y", "\"", ":", "\"", "5", "0", "0", "\"", "}">>)),
    Replied(Text(<<"{", "\"", "c", "u", "s", "t", "o", "m", "e", "r", "_", "n", "a", "m", "e", "\"", ":", "\"", "R", "a", "j", "u", "\"", ",", "\"", "p", "r", "o", "d", "u", "c", "t", "\"", ":", "\"", "p", "i", "p", "e", "\"", ",", "\"", "r", "a", "t", "e", "\"", ":", "\"", "6", "0", "0", "\"", ",", "\"", "q", "u", "a", "n", "t", "i", "t", "y", "\"", ":", "\"", "5", "0", "0", "\"", "}">>)),
    Replied(Text(<<"{", "\"", "c", "u", "s", "t", "o", "m", "e", "r", "_", "n", "a", "m", "e", "\"", ":", "\"", "R", "a", "\\", "u", "d", "8", "0", "0", "j", "u", "\"", ",", "\"", "p", "r", "o", "d", "u", "c", "t", "\"", ":", "\"", "p", "i", "p", "e", "\"", ",", "\"", "e", "m", "a", "i", "l", "\"", ":", "\"", "r", "@", "x", "\"", ",", "\"", "r", "a", "t", "e", "\"", ":", "\"", "6", "0", "0", "\"", ",", "\"", "q", "u", "a", "n", "t", "i", "t", "y", "\"", ":", "\"", "5", "0", "0", "\"", "}">>)),
    Replied(Text(<<"{", "\"", "c", "u", "s", "t", "o", "m", "e", "r", "_", "n", "a", "m", "e", "\"", ":", "[", "\"", "R", "a", "j", "u", "\"", "]", ",", "\"", "p", "r", "o", "d", "u", "c", "t", "\"", ":", "\"", "p", "i", "p", "e", "\"", ",", "\"", "e", "m", "a", "i", "l", "\"", ":", "\"", "r", "\\", "u", "d", "c", "8", "0", "@", "x", "\"", ",", "\"", "r", "a", "t", "e", "\"", ":", "t", "r", "u", "e", ",", "\"", "q", "u", "a", "n", "t", "i", "t", "y", "\"", ":", "\"", "5", "0", "0", "\"", "}">>)),
    Replied(Text(<<"{", "\"", "c", "u", "s", "t", "o", "m", "e", "r", "_", "n", "a", "m", "e", "\"", ":", "\"", "R", "a", "j", "u", "\"", ",", "\"", "p", "r", "o", "d", "u", "c", "t", "\"", ":", "\"", "p", "i">>) \o <<56448>>
              \o Text(<<"p", "e", "\"", ",", "\"", "e", "m", "a", "i", "l", "\"", ":", "\"", "r", "@", "x", "\"", ",", "\"", "r", "a", "t", "e", "\"", ":", "\"", "6", "0", "0", "\"", ",", "\"", "q", "u", "a", "n", "t", "i", "t", "y", "\"", ":", "\"", "5", "0", "0", "\"", "}">>)) }

\* ------------------------------------------------------------------------
\* Initial state
\* ------------------------------------------------------------------------
NoFiles == [p \in {} |-> None]
Idle == [h \in Invocations |-> None]

Init ==
  /\ env \in Environments
  /\ files = NoFiles
  /\ pc = [h \in Invocations |-> "idle"]
  /\ request = Idle
  /\ customer_phone_number = Idle
  /\ command_text = Idle
  /\ ai_reply = Idle
  /\ context = Idle
  /\ doc_file = Idle
  /\ reply_msg = Idle
  /\ calls = [h \in Invocations |-> <<>>]
  /\ response = Idle

\* ------------------------------------------------------------------------
\* handle_webhook
\* ------------------------------------------------------------------------
\* What Flask answers when an exception leaves the view function.
InternalServerError == [status |-> 500, body |-> <<>>]

\* return Response(status=200)
Return200(h) ==
  /\ response' = [response EXCEPT ![h] = Response(None, 200)]
  /\ pc' = [pc EXCEPT ![h] = "done"]

\* The handler goes on to send_whatsapp_reply(customer_phone_number, message).
Reply(h, message) ==
  /\ reply_msg' = [reply_msg EXCEPT ![h] = message]
  /\ pc' = [pc EXCEPT ![h] = "reply"]

\* Lines 195-206: a GET request is answered at once.
handle_GET(h) ==
  /\ pc[h] = "idle"
  /\ \E req \in GetRequests :
       /\ request' = [request EXCEPT ![h] = req]
       /\ response' = [response EXCEPT ![h] = VerifyResponse(req, env.META_VERIFY_TOKEN)]
  /\ pc' = [pc EXCEPT ![h] = "done"]
  /\ UNCHANGED <<env, files, customer_phone_number, command_text, ai_reply, context,
                 doc_file, reply_msg, calls>>

\* Lines 209-246 and 298-301: a POST request is classified; only a text
\* message with a truthy sender and body goes on to the extractor.
handle_POST(h) ==
  /\ pc[h] = "idle"
  /\ \E req \in PostRequests :
       LET parsed == ParseDelivery(req, env.stdout_errors) IN
         /\ request' = [request EXCEPT ![h] = req]
         /\ customer_phone_number' = [customer_phone_number EXCEPT ![h] = parsed.customer_phone_number]
         /\ command_text' = [command_text EXCEPT ![h] = parsed.command_text]
         /\ IF /\ parsed.branch = "text"
               /\ Truthy(parsed.command_text) /\ Truthy(parsed.customer_phone_number)
            THEN /\ pc' = [pc EXCEPT ![h] = "generate"]
                 /\ UNCHANGED response
            ELSE Return200(h)
  /\ UNCHANGED <<env, files, ai_reply, context, doc_file, reply_msg, calls>>

\* Lines 247, 61-93: parse_command_with_ai is called and asks the model.
generate_content(h) ==
  /\ pc[h] = "generate"
  /\ \E reply \in ModelReplies : ai_reply' = [ai_reply EXCEPT ![h] = reply]
  /\ calls' = [calls EXCEPT ![h] = Append(@, Call("parse_command_with_ai", command_text[h], None, None))]
  /\ pc' = [pc EXCEPT ![h] = "validate"]
  /\ UNCHANGED <<env, files, request, customer_phone_number, command_text, context,
                 doc_file, reply_msg, response>>

\* Lines 94-131 and 249-254: the reply of the model is validated; on None
\* the handler goes on to tell the sender.  With a record it prints the
\* customer's name (line 254): an exception of this print leaves the view
\* function, no handler being around it.
validate(h) ==
  /\ pc[h] = "validate"
  /\ \E ctx \in {parse_command_with_ai(ai_reply[h], env.stdout_errors, env.stack + 1)} :
       /\ context' = [context EXCEPT ![h] = ctx]
       /\ IF on_context(ctx) = "reply"
          THEN Reply(h, MsgNotUnderstood) /\ UNCHANGED response
          ELSE IF announce_raises(ctx, env.stdout_errors)
          THEN /\ response' = [response EXCEPT ![h] = InternalServerError]
               /\ pc' = [pc EXCEPT ![h] = "done"]
               /\ UNCHANGED reply_msg
          ELSE /\ pc' = [pc EXCEPT ![h] = "render"]
               /\ UNCHANGED <<reply_msg, response>>
  /\ UNCHANGED <<env, files, request, customer_phone_number, command_text, ai_reply,
                 doc_file, calls>>

\* Lines 255-259, 134-157: create_quotation_from_template.  The template may
\* fail to load, rendering or saving may fail (a customer_name line 148
\* cannot go through always does), or the document is saved.  Without a
\* document the handler goes on to tell the sender.
create_quotation_from_template(h) ==
  /\ pc[h] = "render"
  /\ \E saved \in (IF Items(context[h].dict[K.customer_name]).ok THEN BOOLEAN ELSE {FALSE}) :
       LET path == output_path(context[h].dict[K.customer_name])
           doc == IF saved THEN Str(path) ELSE None
       IN /\ files' = IF saved
                      THEN [p \in DOMAIN files \cup {path} |->
                              IF p = path THEN Document(context[h]) ELSE files[p]]
                      ELSE files
          /\ doc_file' = [doc_file EXCEPT ![h] = doc]
          /\ calls' = [calls EXCEPT ![h] =
                         Append(@, Call("create_quotation_from_template", context[h], None, doc))]
          /\ IF on_doc_file(doc) = "reply"
             THEN Reply(h, MsgDocumentError)
             ELSE /\ pc' = [pc EXCEPT ![h] = "mail"]
                  /\ UNCHANGED reply_msg
  /\ UNCHANGED <<env, request, customer_phone_number, command_text, ai_reply, context,
                 response>>

\* What yag.send attaches: the document now stored under the path, None when
\* there is no such file.
Attachment(path) == IF path \in DOMAIN files THEN files[path] ELSE None

\* The mailer's call: whether yag.send went through, with which attachment,
\* and what the mailer returned.
Mailed(h, sent, returned, attached) ==
  Append(calls[h], Call("send_email_with_attachment", context[h].dict[K.email], doc_file[h],
                        [sent |-> sent, returned |-> returned, attached |-> attached]))

\* Lines 287, 161-179 and 293-295: send_email_with_attachment up to line 179.
\* Without an attachment path, without the Gmail credentials, or when the
\* send raises, it returns False and the handler goes on to tell the sender.
\* When the mail is out and the print of line 179 raises, line 186 catches
\* that: False is returned and the file is left.  Otherwise the mail is out
\* and the file is still to be removed.
yag_send(h) ==
  /\ pc[h] = "mail"
  /\ \E sent \in (IF doc_file[h] # None /\ env.GMAIL THEN BOOLEAN ELSE {FALSE}) :
       IF sent /\ ~sent_raises(context[h], env.stdout_errors)
       THEN /\ calls' = [calls EXCEPT ![h] = Mailed(h, TRUE, TRUE, Attachment(doc_file[h].s))]
            /\ pc' = [pc EXCEPT ![h] = "remove"]
            /\ UNCHANGED reply_msg
       ELSE /\ calls' = [calls EXCEPT ![h] =
                          Mailed(h, sent, FALSE, IF sent THEN Attachment(doc_file[h].s) ELSE None)]
            /\ Reply(h, MsgMailFailed(context[h]))
  /\ UNCHANGED <<env, files, request, customer_phone_number, command_text, ai_reply,
                 context, doc_file, response>>

\* Lines 180-185 and 289-291: os.remove deletes the file or raises (the
\* file is gone, or the removal is refused); either way True is returned
\* and the handler goes on to tell the sender of the success.
os_remove(h) ==
  /\ pc[h] = "remove"
  /\ \E removed \in (IF doc_file[h].s \in DOMAIN files THEN BOOLEAN ELSE {FALSE}) :
       files' = IF removed
                THEN [p \in DOMAIN files \ {doc_file[h].s} |-> files[p]]
                ELSE files
  /\ Reply(h, MsgSuccess(context[h]))
  /\ UNCHANGED <<env, request, customer_phone_number, command_text, ai_reply, context,
                 doc_file, calls, response>>

\* Lines 33-58 and 252, 260, 297: send_whatsapp_reply.  The handler waits in
\* requests.post (line 49) while other invocations run; when the call is
\* over (or was not made, without the Meta keys) it returns
\* Response(status=200).
requests_post(h) ==
  /\ pc[h] = "reply"
  /\ \E o \in ReplyOutcomes(env) :
       LET r == send_whatsapp_reply(customer_phone_number[h], reply_msg[h], o, env.stdout_errors) IN
         /\ calls' = [calls EXCEPT ![h] = Append(@, r.call)]
         /\ IF r.escapes
            THEN /\ response' = [response EXCEPT ![h] = InternalServerError]
                 /\ pc' = [pc EXCEPT ![h] = "done"]
            ELSE Return200(h)
  /\ UNCHANGED <<env, files, request, customer_phone_number, command_text, ai_reply,
                 context, doc_file, reply_msg>>

Next ==
  \E h \in Invocations :
    \/ handle_GET(h)
    \/ handle_POST(h)
    \/ generate_content(h)
    \/ validate(h)
    \/ create_quotation_from_template(h)
    \/ yag_send(h)
    \/ os_remove(h)
    \/ requests_post(h)

Spec == Init /\ [][Next]_vars

\* ------------------------------------------------------------------------
\* The extractor on a wide range of model outputs
\* ------------------------------------------------------------------------
\* Field values the model may return; None stands for a key left out.
TextValues(given) == {None, Null, Str(<<>>), Str(given)}

\* Rates: texts float() accepts (plain, signed, padded with blanks or with
\* a tab and a newline, with an exponent, an exponent of ten digits, an
\* underscore, an Arabic-Indic digit, more than two decimals, inf, nan) and
\* texts it refuses; JSON numbers, 1E400 and NaN among them; true, false,
\* a list and a dict.
RateValues ==
  { None, Null, Str(<<>>), Str(T_600), Str(T_abc), Str(Text(<<"0">>)), Str(Text(<<"-", "3">>)),
    Str(Text(<<"1", "2", "3", "4", ".", "5">>)), Str(Text(<<" ", "7", ".", "2", "5", " ">>)), Str(<<Rupee>> \o Text(<<"6", "0", "0", ".", "0", "0">>)),
    Str(Text(<<"1", ",", "0", "0", "0">>)), Str(Text(<<"1", "e", "3">>)), Str(Text(<<"1", "_", "0", "0", "0">>)), Str(<<9, 54, 48, 48, 10>>),
    Str(<<1635>>), Str(Text(<<"1", ".", "0", "0", "6">>)), Str(Text(<<"2", ".", "6", "7", "5">>)), Str(Text(<<"0", ".", "0", "0", "5">>)),
    Str(Text(<<"i", "n", "f">>)), Str(Text(<<"n", "a", "n">>)), Str(Text(<<"1", "e", "4", "0", "0">>)), Str(Text(<<"0", ".", "0", "5", "e", "0", "0", "0", "0", "0", "0", "0", "0", "0", "2">>)),
    Str(Text(<<"5", "e", "-", "1", "2", "3", "4", "5", "6", "7", "8", "9", "0">>)), Str(Text(<<"6", "backquote", "backquote", "backquote", "0", "0">>)),
    Num(Text(<<"0">>)), Num(T_600), Num(Text(<<"0", ".", "5">>)), Num(Text(<<"0", ".", "0", "0", "1">>)), Num(Text(<<"1", ".", "0", "0", "6">>)),
    Num(Text(<<"1", "e", "2">>)), Num(Text(<<"1", "E", "4", "0", "0">>)), Num(Text(<<"N", "a", "N">>)), Num(Text(<<"0", "0", "7">>)), Num(Text(<<"6", "backquote", "backquote", "backquote", "0", "0">>)),
    Bool(TRUE), Bool(FALSE), Container("array", Text(<<"[", "6", "0", "0", "]">>)), Container("object", Text(<<"{", "}">>)) }

\* Quantities: texts int() accepts (plain, signed, with leading zeros, an
\* underscore, padding, an Arabic-Indic digit) and texts it refuses; JSON
\* numbers, floats among them; true and a list.
QuantityValues ==
  { None, Null, Str(<<>>), Str(T_500), Str(T_abc), Str(Text(<<"0">>)), Str(Text(<<"-", "4">>)),
    Str(Text(<<"0", "0", "7">>)), Str(Text(<<"2", ".", "5">>)), Str(Text(<<"1", "_", "0", "0", "0">>)), Str(<<9, 51, 10>>),
    Str(<<1635>>), Str(Text(<<"1", "e", "2">>)), Str(Text(<<"n", "a", "n">>)),
    Num(Text(<<"0">>)), Num(Text(<<"3">>)), Num(Text(<<"2", ".", "5">>)), Num(Text(<<"0", ".", "5">>)), Num(Text(<<"1", "e", "2">>)),
    Num(Text(<<"1", "E", "4", "0", "0">>)), Num(Text(<<"N", "a", "N">>)), Num(Text(<<"5", "backquote", "backquote", "backquote">>)), Bool(TRUE), Container("array", Text(<<"[", "5", "]">>)) }

Pair(k, v) == <<k, v>>

OptionalFields ==
  { <<>>,
    <<Pair(K.date, Null), Pair(K.units, Null)>>,
    <<Pair(K.date, Str(<<>>)), Pair(K.company_name, Str(<<>>)), Pair(K.hsn, Str(<<>>)),
      Pair(K.q_no, Str(<<>>)), Pair(K.units, Str(<<>>))>>,
    <<Pair(K.date, Str(Text(<<"M", "a", "y", " ", "1">>))), Pair(K.company_name, Str(Text(<<"R", "a", "j">>))),
      Pair(K.hsn, Str(Text(<<"7", "3", "0", "4">>))), Pair(K.q_no, Str(Text(<<"1", "0", "1">>))),
      Pair(K.units, Str(Text(<<"P", "c", "s">>)))>> }

\* A string as JSON writes it: in quotes, with the quote, the backslash,
\* the tab and the newline escaped.
Escaped(c) ==
  CASE c = 34 -> <<92, 34>> [] c = 92 -> <<92, 92>> [] c = 9 -> <<92, 116>>
    [] c = 10 -> <<92, 110>> [] OTHER -> <<c>>
Quoted(chars) ==
  <<34>> \o Flatten(Tuple([i \in 1..Len(chars) |-> Escaped(chars[i])]), 1, Len(chars)) \o <<34>>
Written(v) ==
  CASE v.t = "str" -> Quoted(v.s)
    [] v.t = "null" -> T_null
    [] v.t = "bool" -> (IF v.s = <<1>> THEN T_true ELSE T_false)
    [] OTHER -> v.s
Member(pairs, i) ==
  (IF i = 1 THEN <<>> ELSE <<44>>) \o Quoted(pairs[i][1]) \o <<58, 32>> \o Written(pairs[i][2])
Members(pairs) == Flatten(Tuple([i \in 1..Len(pairs) |-> Member(pairs, i)]), 1, Len(pairs))

\* The text of the JSON object with the given values, keys with value None
\* left out.
Object(product, customer_name, email, rate, quantity, optional) ==
  <<123>>
  \o Members(SelectSeq(<<Pair(K.product, product), Pair(K.customer_name, customer_name),
                         Pair(K.email, email), Pair(K.rate, rate),
                         Pair(K.quantity, quantity)>>, LAMBDA p : p[2] # None) \o optional)
  \o <<125>>

\* The character c n times.
Repeat(c, n) == Tuple([i \in 1..n |-> c])

\* A valid order nested n deep: the object has an hsn of n - 1 arrays, one
\* inside the other.
NestedOrder(n) ==
  Replied(Object(Str(T_pipe), Str(T_Raju), Str(T_mail), Str(T_600), Str(T_500),
                 <<Pair(K.hsn, Container("array", Repeat(91, n - 1) \o Repeat(93, n - 1)))>>))

\* The handler is called from module level, or from 30 frames deeper.
StackDepths == {Configured, [Configured EXCEPT !.stack = 32]}

\* Orders nested as deep as json.loads decodes where the stack is shallow,
\* and one level deeper.
NestedOrders ==
  {NestedOrder(MaxNesting(Configured.stack + 1)),
   NestedOrder(MaxNesting(Configured.stack + 1) + 1)}

\* Every rate with every quantity, and every choice of the text fields
\* with every choice of the optional fields.
AllModelReplies ==
  ModelReplies
  \cup NestedOrders
  \cup { Replied(Object(Str(T_pipe), Str(T_Raju), Str(T_mail), r, q, o)) :
           r \in RateValues, q \in QuantityValues,
           o \in {<<>>, <<Pair(K.date, Str(Text(<<"M", "a", "y", " ", "1">>))), Pair(K.units, Str(Text(<<"P", "c", "s">>)))>>} }
  \cup { Replied(Object(p, c, e, r, Str(T_500), o)) :
           p \in TextValues(T_pipe)
                   \cup {Str(T_rod_fenced), Num(Text(<<"0">>)), Container("array", Text(<<"[", " ", "]">>)),
                         Container("array", Text(<<"[", "\"", "p", "i", "p", "e", "\"", "]">>))},
           c \in {None, Str(<<>>), Str(T_Raju)},
           e \in {None, Str(<<>>), Str(T_mail)},
           r \in {Str(T_600), Num(Text(<<"0", ".", "5">>))}, o \in OptionalFields }

\* The text delivery every extraction below belongs to.
TextRequest ==
  [method |-> "POST", mode |-> None, verify_token |-> None, challenge |-> None,
   json_ok |-> TRUE,
   data |-> Envelope([messages |-> <<TextMessage(Str(T_phone), Str(T_command))>>])]

\* The first invocation has received a text message and the model has
\* answered; the answer is any of AllModelReplies.
InitExtract ==
  /\ env \in StackDepths
  /\ files = NoFiles
  /\ pc = [h \in Invocations |-> IF h = 1 THEN "validate" ELSE "idle"]
  /\ request = [h \in Invocations |-> IF h = 1 THEN TextRequest ELSE None]
  /\ customer_phone_number = [h \in Invocations |-> IF h = 1 THEN Str(T_phone) ELSE None]
  /\ command_text = [h \in Invocations |-> IF h = 1 THEN Str(T_command) ELSE None]
  /\ \E reply \in AllModelReplies :
       ai_reply = [h \in Invocations |-> IF h = 1 THEN reply ELSE None]
  /\ context = Idle
  /\ doc_file = Idle
  /\ reply_msg = Idle
  /\ calls = [h \in Invocations |->
                IF h = 1 THEN <<Call("parse_command_with_ai", Str(T_command), None, None)>>
                ELSE <<>>]
  /\ response = Idle

NextExtract == \E h \in Invocations : validate(h)

SpecExtract == InitExtract /\ [][NextExtract]_vars

\* ------------------------------------------------------------------------
\* Properties
\* ------------------------------------------------------------------------
\* Invocation h is past the extractor.
Extracted(h) ==
  pc[h] \in {"render", "mail", "remove", "reply", "done"} /\ ai_reply[h] # None

\* What json.loads makes of the reply of the model, code fences aside, with
\* frames Python frames on the stack in parse_command_with_ai.
Given(reply, frames) ==
  IF reply.raised THEN Failed ELSE JsonLoads(StripFences(reply.text), MaxNesting(frames))

\* The reply of the model is one JSON object.
IsObject(given) == given.ok /\ IsDict(given.val)

\* The value converts to a number: float() gives a float that is a number
\* (not NaN); to an integer: int() gives an int.
ConvertsToNumber(v) == py_float(v).ok /\ py_float(v).val.kind # "nan"
ConvertsToInteger(v) == py_int(v).ok

\* A value that is not empty: not null, not "", not a list or a dict
\* without members.
NonEmpty(v) == v.t \in {"str", "array", "object", "null"} => Truthy(v)

\* All five required fields are there with a value that is not empty.
Supplied(d) ==
  \A i \in 1..Len(required_fields) :
    required_fields[i] \in DOMAIN d /\ NonEmpty(d[required_fields[i]])

RecordKeys ==
  {K.product, K.customer_name, K.email, K.rate, K.quantity, K.rate_formatted, K.total,
   K.date, K.company_name, K.hsn, K.q_no, K.units}

\* The model output, a JSON object, is valid.
Valid(d) ==
  Supplied(d) /\ ConvertsToNumber(d[K.rate]) /\ ConvertsToInteger(d[K.quantity])

RecordOnlyIfValid(ctx, given) ==
  /\ ctx # None =>
       (IsObject(given) /\ Valid(given.val.dict) /\ RecordKeys \subseteq DOMAIN ctx.dict)
  /\ (~IsObject(given) \/ ~Valid(given.val.dict)) => ctx = None

\* C2: the extractor returns a record only for a model output that is a JSON
\* object with product, customer_name, email, rate and quantity all present
\* and non-empty, rate a number and quantity an integer; any other output
\* gives None, and a record that is returned has every field.
C2_RecordOnlyIfValid ==
  \A h \in Invocations :
    Extracted(h) => RecordOnlyIfValid(context[h], Given(ai_reply[h], env.stack + 1))

TotalFromNumericRate(ctx, rate, quantity) ==
  /\ ctx[K.total] = Str(FormatCurrency(FloatTimesInt(rate, quantity).val))
  /\ ctx[K.rate] = Str(FormatCurrency(rate))
  /\ ctx[K.rate_formatted] = ctx[K.rate]
  /\ ctx[K.quantity] = Str(py_str_int(quantity))

NumbersOf(ctx, d) == TotalFromNumericRate(ctx, py_float(d[K.rate]).val, py_int(d[K.quantity]).val)

\* C9: for a model output that passes validation, total is the currency
\* text of (numeric rate times integer quantity), the rate being the number
\* read from the model's rate field, not from the display text that
\* replaces it; quantity is the canonical text of the integer.
C9_TotalFromNumericRate ==
  \A h \in Invocations :
    (Extracted(h) /\ context[h] # None) =>
      NumbersOf(context[h].dict, Given(ai_reply[h], env.stack + 1).val.dict)

GaveRateAndQuantity(d, rate, quantity) == d[K.rate] = rate /\ d[K.quantity] = quantity

\* Rate "1234.5" and quantity "007" gave total 8,641.50 and quantity "7".
C9_Witness ==
  \E h \in Invocations :
    /\ Extracted(h) /\ context[h] # None
    /\ context[h].dict[K.total] = Str(<<Rupee>> \o Text(<<"8", ",", "6", "4", "1", ".", "5", "0">>))
    /\ context[h].dict[K.rate] = Str(<<Rupee>> \o Text(<<"1", ",", "2", "3", "4", ".", "5", "0">>))
    /\ context[h].dict[K.quantity] = Str(Text(<<"7">>))
    /\ GaveRateAndQuantity(Given(ai_reply[h], env.stack + 1).val.dict, Str(Text(<<"1", "2", "3", "4", ".", "5">>)), Str(Text(<<"0", "0", "7">>)))

\* The names of the collaborator calls of h, in order, and its calls of fn.
Names(h) == [i \in 1..Len(calls[h]) |-> calls[h][i].fn]
CallsTo(h, fn) == SelectSeq(calls[h], LAMBDA c : c.fn = fn)

IsPost(h) == request[h] # None /\ request[h].method = "POST"
IsGet(h) == request[h] # None /\ request[h].method = "GET"

\* The mail of h went out.
MailSent(h) ==
  \E i \in 1..Len(calls[h]) :
    calls[h][i].fn = "send_email_with_attachment" /\ calls[h][i].out.sent

\* C1: every POST request, whatever its body and whatever the extractor,
\* renderer, mailer and reply do, is answered with status 200: a handler
\* that has returned has returned 200.
C1_PostAnswers200 ==
  \A h \in Invocations :
    (IsPost(h) /\ pc[h] = "done") => (response[h] # None /\ response[h].status = 200)

\* The body a response carries for a challenge: empty without one.
ChallengeBody(req) == IF req.challenge = None THEN <<>> ELSE req.challenge.s

\* C3 as claimed: 200 with the challenge when mode is "subscribe" and the
\* token equals the secret, 403 when mode is "subscribe" and the token is
\* present but differs, 400 when mode or token is absent; no collaborator
\* is called.
C3_AsClaimed ==
  \A h \in Invocations :
    IsGet(h) =>
      LET req == request[h] IN
        /\ (req.mode = Str(T_subscribe) /\ req.verify_token # None
              /\ req.verify_token = env.META_VERIFY_TOKEN)
             => (response[h].status = 200 /\ response[h].body = ChallengeBody(req))
        /\ (req.mode = Str(T_subscribe) /\ req.verify_token # None
              /\ req.verify_token # env.META_VERIFY_TOKEN)
             => response[h].status = 403
        /\ (req.mode = None \/ req.verify_token = None) => response[h].status = 400
        /\ calls[h] = <<>>

\* C3, amended: an empty token counts as absent.  200 with the challenge when
\* mode is "subscribe" and the token is non-empty and equals the secret, 403
\* when mode is "subscribe" and the token is non-empty and differs, 400 when
\* mode is absent or the token is absent or empty; no collaborator is called.
C3_Verification ==
  \A h \in Invocations :
    IsGet(h) =>
      LET req == request[h]
          given == req.verify_token # None /\ req.verify_token # Str(<<>>)
      IN /\ pc[h] = "done"
         /\ (req.mode = Str(T_subscribe) /\ given /\ req.verify_token = env.META_VERIFY_TOKEN)
              => (response[h].status = 200 /\ response[h].body = ChallengeBody(req))
         /\ (req.mode = Str(T_subscribe) /\ given /\ req.verify_token # env.META_VERIFY_TOKEN)
              => response[h].status = 403
         /\ (req.mode = None \/ ~given) => response[h].status = 400
         /\ calls[h] = <<>>

\* A subscribe request with the right token got 200 and the challenge back.
C3_Witness ==
  \E h \in Invocations :
    /\ IsGet(h) /\ pc[h] = "done"
    /\ request[h].mode = Str(T_subscribe)
    /\ request[h].verify_token = Str(T_secret) /\ env.META_VERIFY_TOKEN = Str(T_secret)
    /\ response[h] = [status |-> 200, body |-> T_challenge]

Pipeline ==
  <<"parse_command_with_ai", "create_quotation_from_template", "send_email_with_attachment">>

\* The call sequences of one handling: a start of the pipeline, and from
\* the extractor on possibly one reply at the end.
CallOrders ==
  {SubSeq(Pipeline, 1, k) : k \in 0..3}
    \cup {Append(SubSeq(Pipeline, 1, k), "send_whatsapp_reply") : k \in 1..3}

\* The handler of h is at its reply or, the reply made, has stopped; no
\* call but the reply follows the first n of the pipeline.
StopsAfter(h, n) ==
  /\ pc[h] \in {"reply", "done"}
  /\ pc[h] = "reply" => Names(h) = SubSeq(Pipeline, 1, n)
  /\ pc[h] = "done" => Names(h) = Append(SubSeq(Pipeline, 1, n), "send_whatsapp_reply")

\* C4: one handling calls extractor, renderer, mailer, reply in this order,
\* each at most once; the renderer only after the extractor returned a
\* record, the mailer only after the renderer returned a path; a failed step
\* is followed by one reply and nothing else, and after the reply the
\* handler has stopped.
C4_CallOrder ==
  \A h \in Invocations :
    /\ Names(h) \in CallOrders
    /\ Len(calls[h]) >= 2 /\ Names(h)[2] = "create_quotation_from_template"
         => context[h] # None
    /\ Len(calls[h]) >= 3 /\ Names(h)[3] = "send_email_with_attachment"
         => calls[h][2].out # None
    /\ (calls[h] # <<>> /\ Names(h)[Len(calls[h])] = "send_whatsapp_reply")
         => pc[h] = "done"
    /\ (Len(calls[h]) >= 1 /\ pc[h] \notin {"generate", "validate"} /\ context[h] = None)
         => StopsAfter(h, 1)
    /\ (Len(calls[h]) >= 2 /\ calls[h][2].fn = Pipeline[2] /\ calls[h][2].out = None)
         => StopsAfter(h, 2)
    /\ (Len(calls[h]) >= 3 /\ calls[h][3].fn = Pipeline[3] /\ ~calls[h][3].out.returned)
         => StopsAfter(h, 3)

\* A handling whose renderer failed: extractor, renderer, reply, stop.
C4_Witness ==
  \E h \in Invocations :
    /\ pc[h] = "done" /\ context[h] # None
    /\ Names(h) = <<Pipeline[1], Pipeline[2], "send_whatsapp_reply">>
    /\ calls[h][2].out = None

\* The sender of the text message of a delivery.
SenderOf(req) == req.data.entry[1].changes[1].value.messages[1].from

\* C5: a handling that called the extractor ends with exactly one reply to
\* the sender: the success message exactly when extraction, rendering and
\* mailing all succeeded, otherwise the failure message of the step that
\* failed, the mail failure naming the recipient.
C5_OneReply ==
  \A h \in Invocations :
    (pc[h] = "done" /\ calls[h] # <<>>) =>
      LET replies == CallsTo(h, "send_whatsapp_reply")
          msg == replies[1].a2
      IN /\ Len(replies) = 1
         /\ replies[1].a1 = SenderOf(request[h])
         /\ msg.kind = "success" <=> (context[h] # None /\ doc_file[h] # None /\ MailSent(h))
         /\ context[h] = None => msg = [kind |-> "not_understood", product |-> Null, email |-> Null]
         /\ (context[h] # None /\ doc_file[h] = None)
              => msg = [kind |-> "document_error", product |-> Null, email |-> Null]
         /\ (context[h] # None /\ doc_file[h] # None /\ ~MailSent(h))
              => msg = [kind |-> "mail_failed", product |-> Null,
                        email |-> context[h].dict[K.email]]
         /\ (context[h] # None /\ doc_file[h] # None /\ MailSent(h))
              => msg = [kind |-> "success", product |-> context[h].dict[K.product],
                        email |-> context[h].dict[K.email]]

\* The deliveries C6 is about, read off the body.
LacksChange(data) ==
  \/ "entry" \notin DOMAIN data \/ Len(data.entry) = 0
  \/ "changes" \notin DOMAIN data.entry[1] \/ Len(data.entry[1].changes) = 0

MessagesOf(data) ==
  LET change == data.entry[1].changes[1] IN
    IF "value" \in DOMAIN change /\ "messages" \in DOMAIN change.value
    THEN change.value.messages ELSE <<>>

StatusesOf(data) ==
  LET change == data.entry[1].changes[1] IN
    IF "value" \in DOMAIN change /\ "statuses" \in DOMAIN change.value
    THEN change.value.statuses ELSE <<>>

ToBeIgnored(req) ==
  \/ ~req.json_ok
  \/ LacksChange(req.data)
  \/ (MessagesOf(req.data) = <<>> /\ StatusesOf(req.data) # <<>>)
  \/ (MessagesOf(req.data) # <<>>
        /\ ("type" \notin DOMAIN MessagesOf(req.data)[1]
              \/ MessagesOf(req.data)[1].type # Str(T_text)))

\* C6: a delivery that is malformed, lacks entry[0].changes[0], carries
\* statuses without messages, or carries a message that is not text, is
\* answered 200 without any call to extractor, renderer, mailer or reply.
C6_IgnoredDeliveries ==
  \A h \in Invocations :
    (IsPost(h) /\ ToBeIgnored(request[h])) =>
      (pc[h] = "done" /\ response[h].status = 200 /\ calls[h] = <<>>)

\* A status update was answered 200 with no call made.
C6_Witness ==
  \E h \in Invocations :
    /\ IsPost(h) /\ request[h].json_ok /\ ~LacksChange(request[h].data)
    /\ MessagesOf(request[h].data) = <<>> /\ StatusesOf(request[h].data) # <<>>
    /\ pc[h] = "done" /\ response[h].status = 200 /\ calls[h] = <<>>

\* C7: invocations do not interfere: from rendering until its mail is out,
\* the file of an invocation is there and holds its own document, and the
\* document a mail carries is the one its invocation rendered.
C7_NoInterference ==
  \A h \in Invocations :
    /\ (pc[h] = "mail" /\ doc_file[h] # None)
         => (doc_file[h].s \in DOMAIN files /\ files[doc_file[h].s] = Document(context[h]))
    /\ \A i \in 1..Len(calls[h]) :
         (calls[h][i].fn = "send_email_with_attachment" /\ calls[h][i].out.sent)
           => calls[h][i].out.attached = Document(context[h])

\* Invocation h returns in this step.
Returns(h) == pc[h] # "done" /\ pc'[h] = "done"

\* The mail of h goes out in this step.
Sends(h) ==
  /\ pc[h] = "mail" /\ Len(calls'[h]) = Len(calls[h]) + 1
  /\ calls'[h][Len(calls'[h])].out.sent

\* C8: after a successful send the removal is tried and the handling still
\* goes on as a success when the removal fails; after a failed send (send
\* error or missing credentials) the file is not deleted and is there when
\* the handler returns.
C8_FileAndMail ==
  [][\A h \in Invocations :
       /\ Sends(h) => pc'[h] = "remove"
       /\ (pc[h] = "remove" /\ pc'[h] # "remove")
            => (pc'[h] = "reply" /\ reply_msg'[h].kind = "success")
       /\ (Returns(h) /\ doc_file[h] # None /\ ~MailSent(h))
            => doc_file[h].s \in DOMAIN files']_vars

\* The text deliveries: the first message has type text, a sender and a body.
IsTextDelivery(req) ==
  /\ req.json_ok /\ ~LacksChange(req.data) /\ MessagesOf(req.data) # <<>>
  /\ {"type", "from", "text"} \subseteq DOMAIN MessagesOf(req.data)[1]
  /\ MessagesOf(req.data)[1].type = Str(T_text)
  /\ "body" \in DOMAIN MessagesOf(req.data)[1].text

\* C10: every delivery whose first message is a text message, whatever its
\* sender and body (an empty body too), has the extractor called exactly
\* once, with the body.
C10_ExtractorCalledOnce ==
  \A h \in Invocations :
    (IsPost(h) /\ IsTextDelivery(request[h]) /\ pc[h] = "done") =>
      CallsTo(h, "parse_command_with_ai") =
        <<[fn |-> "parse_command_with_ai",
           a1 |-> MessagesOf(request[h].data)[1].text.body, a2 |-> None, out |-> None]>>
====
